---- MODULE Spec2Model ----
(***************************************************************************)
(* Detection-and-notification pipeline of the DAO governance monitor:      *)
(* the live monitoring loop (main.monitor_cycle), the ad-hoc scans the     *)
(* Slack bot starts on threads of their own (SlackBot._async_full,         *)
(* SlackBot._async_backfill) and the SQLite ledger (StateManager).         *)
(*                                                                         *)
(* Scores are counted in halves (1.0 is 2, 1.5 is 3), so that the category *)
(* multiplier 1.5 stays in the integers.  A ledger holds what is committed *)
(* to its database file; what a session has added and not yet committed is *)
(* held apart (sess) and is lost by a crash.                               *)
(*                                                                         *)
(* Beside the pipeline stand the rate-limited HTTP client the forums fetch *)
(* through (RateLimitedClient.get, one client for the live loop and the    *)
(* scan threads; times in seconds) and the keyword analyzer with its       *)
(* pattern lists (ContentAnalyzer).                                        *)
(***************************************************************************)
EXTENDS Integers, Sequences, FiniteSets, TLC

\* ------------------------------------------------------------------ bounds
NPosts == 2
\* The most patterns the active set is grown to.
MaxPatterns == 2
\* The most changes of the pattern set one analyze call is run beside.
MaxMutations == 1
\* The largest id a keyword_configs row is given.
MaxRows == 2

\* ------------------------------------- program constants, scores in halves
TITLE_WEIGHT == 4
BODY_WEIGHT == 2
CATEGORY_MULTIPLIER_NUM == 3
CATEGORY_MULTIPLIER_DEN == 2
DEFAULT_THRESHOLD == 3
BACKFILL_SCORE == 2

\* RateLimitedClient: requests_per_minute and max_retries as constructed,
\* the 5 of "2**attempt * 5" and the default of Retry-After, in seconds.
REQUESTS_PER_MINUTE == 30
MAX_RETRIES == 3
BASE_DELAY == 5
RETRY_AFTER_DEFAULT == 60
MIN_INTERVAL == 60 \div REQUESTS_PER_MINUTE

Null == 0
NoRow == [none |-> TRUE]
NoCur == [none |-> TRUE]
NoSess == [none |-> TRUE]

Posts == 1..NPosts
ForumList == <<1, 2>>
\* post_id = "<forum name>_<topic id>": the first two posts are topics of the
\* first forum, every further one is a topic of the second.
ForumOf(i) == IF i <= 2 THEN 1 ELSE 2
PostsOf(f) == {i \in Posts : ForumOf(i) = f}

Ledgers == {"live", "full", "backfill"}
Scans == {"scan1", "scan2"}
Procs == {"live"} \cup Scans

\* What a fetched post holds, as far as scoring goes: how many active patterns
\* match its title, how many its body, and whether its category is a priority one.
Contents ==
  { [tm |-> 0, bm |-> 0, pri |-> FALSE],
    [tm |-> 0, bm |-> 1, pri |-> FALSE],
    [tm |-> 1, bm |-> 0, pri |-> FALSE],
    [tm |-> 1, bm |-> 0, pri |-> TRUE] }
Thresholds == {DEFAULT_THRESHOLD, 5}

\* Keyword groups in the order of the dict, and pattern texts.
GroupList == <<"governance", "security">>
Groups == {GroupList[k] : k \in 1..Len(GroupList)}
Patterns == {"treasury", "council"}
PRIORITY_CATEGORIES ==
  {"governance", "security", "security council", "proposals", "voting",
   "constitution", "treasury"}
Categories == {"Governance", "Off-topic"}
\* A post as analyze reads it: the patterns that find a match in its title, the
\* patterns that find one in its body, and its category.
Items ==
  [title : SUBSET Patterns, body : SUBSET {"treasury"}, category : Categories]
\* The (group, pattern) arguments add_keyword and remove_keyword are called with.
KeywordArgs ==
  {<<"governance", "treasury">>, <<"governance", "council">>,
   <<"security", "council">>}
\* The same with a pattern that does not compile and with a group the dict
\* does not hold.
KeywordCalls ==
  KeywordArgs \cup {<<"governance", "(">>, <<"_new_", "council">>, <<"_new_", "(">>}
\* The group the "New Group..." option of the add modal stands for, and the
\* groups a dict of patterns can hold, in the order they can come to it.
NewGroup == "_new_"
DictList == Append(GroupList, NewGroup)
DictGroups == Groups \cup {NewGroup}
\* A pattern text re.compile rejects.
BadPattern == "("
\* config.keywords of the deployment.
ConfigKeywords ==
  [g \in Groups |-> IF g = "governance" THEN <<"treasury">> ELSE <<>>]
\* The config.keywords mappings a deployment is started with.
ConfigMappings ==
  { ConfigKeywords,
    [g \in Groups |-> IF g = "governance" THEN <<"(", "treasury">> ELSE <<"council">>],
    [g \in Groups |-> IF g = "governance" THEN <<>> ELSE <<"(">>] }
\* A forum added through Slack; config.forums as the YAML file gives it.
UserForum == 3
ConfigForums == [k \in 1..Len(ForumList) |-> [name |-> ForumList[k], enabled |-> TRUE]]
IdleIter == [pc |-> "idle"]
NoOption == [none |-> TRUE]
NoViews == [remove |-> NoOption, enable |-> NoOption]
NoItem == [none |-> TRUE]
NoResult == [none |-> TRUE]
NoMemo == [none |-> TRUE]

\* The threads that call RateLimitedClient.get on the one client of the
\* process: the monitoring loop and a scan thread with an event loop of its own.
Callers == {"live", "scan1"}
\* Two threads with a session each on one database file, and the scores their
\* calls pass.
Sessions == {"s1", "s2"}
TxScores == {BACKFILL_SCORE, TITLE_WEIGHT}
IdleTx == [pc |-> "idle"]
\* What one outbound request comes to: a response status, or no response at all
\* (aiohttp.ClientError, asyncio.TimeoutError).
NetError == 0
NoResp == -1
Statuses == {200, 204, 404, 429, 500}
\* Retry-After of a 429 response, when the header is there.
RetryAfterHeaders == {1}

VARIABLES
  ledger,      \* the SQLite files: seen_posts rows and notification_log, committed
  clock,       \* datetime.now: the clock ticks between two commits
  threshold,   \* config.monitoring.detection_threshold
  webhook,     \* config.slack.webhook_url is set
  pc, kind, forumsLeft, queue, cur, sess,
  delivered,   \* history: successful alert deliveries, per ledger and post
               \* (0, 1, or 2 for more than one)
  mnDone,      \* history: mark_notified completed, per ledger and post
  seenMax,     \* history: the largest score passed to mark_seen, per post, while
               \* mark_seen is all that was called for it (-1: not so)
  retryDue,    \* history: the live cycle's last delivery for the post failed
  lastOp,      \* history: the last ledger or notifier operation
  gate,        \* RateLimitedClient: its lock and the time since _last_request_time
  call,        \* per caller of RateLimitedClient.get: where the call stands
  sinceDispatch, \* history: the time since the latest outbound request started
  compiled,    \* ContentAnalyzer._compiled: group -> list of patterns
  item,        \* the post handed to ContentAnalyzer.analyze
  result,      \* the DetectionResult of the latest analyze call
  memo,        \* history: one analyze call before the latest, its pattern set
               \* and result
  keywordsCfg, \* config.keywords: group -> list of pattern texts, as loaded
  dictKeys,    \* the keys of ContentAnalyzer._compiled, in insertion order
  addError,    \* what the latest add_keyword call raised
  it,          \* an analyze call in progress: where its two loops stand
  kwRows,      \* the ledger's keyword_configs rows, by id
  disabled,    \* the ledger's records of disabled built-in items
  forumRows,   \* the ledger's forum_configs rows, by id
  cfgForums,   \* config.forums of the running process
  forums,      \* the forums list run_continuous built at its start
  shutdown,    \* the asyncio.Event of run_continuous: "unset", "set", "stopped"
  views,       \* the option selected in a remove modal and in a re-enable
               \* modal that is open in Slack
  adminOp,     \* history: the latest start of the process or Slack submission
  table,       \* the seen_posts table of one database, row by row in the order
               \* of the ids
  tx           \* per session on that database: the mark_seen or mark_notified
               \* call it serves, between its query and its commit

ledgerVars == <<ledger, clock>>
configVars == <<threshold, webhook>>
procVars == <<pc, kind, forumsLeft, queue, cur, sess>>
histVars == <<delivered, mnDone, seenMax, retryDue, lastOp>>
tableVars == <<table, tx>>
pipelineVars == <<ledgerVars, configVars, tableVars, procVars, histVars>>
gateVars == <<gate, call, sinceDispatch>>
scoringVars == <<compiled, item, result, memo>>
analyzerVars == <<keywordsCfg, dictKeys, addError, it>>
adminVars == <<kwRows, disabled, forumRows, cfgForums, forums, views, adminOp>>
restVars == <<analyzerVars, adminVars, shutdown>>
vars == <<pipelineVars, gateVars, scoringVars, restVars>>

\* --------------------------------------------------------------- helpers
RECURSIVE SeqOfSet(_)
SeqOfSet(S) ==
  IF S = {} THEN <<>>
  ELSE LET m == CHOOSE x \in S : \A y \in S : x <= y
       IN <<m>> \o SeqOfSet(S \ {m})

Max(a, b) == IF a >= b THEN a ELSE b

LogCount(db, i) == Cardinality({k \in 1..Len(db.log) : db.log[k].post_id = i})

NotifiedAt(db, i) ==
  IF db.seen[i] = NoRow THEN Null ELSE db.seen[i].notified_at

\* ------------------------------------------------------------- analyzer
\* Variant: the category multiplier is applied at every match, to the running
\* total.
analyze_compounding(c, th) ==
  LET n == c.tm + c.bm
      sum == TITLE_WEIGHT * c.tm + BODY_WEIGHT * c.bm
      score == IF c.pri
               THEN (sum * CATEGORY_MULTIPLIER_NUM ^ n) \div CATEGORY_MULTIPLIER_DEN ^ n
               ELSE sum
  IN [score |-> score, triggered |-> score >= th]

\* Variant: the score is kept on the analyzer and not reset between calls.
analyze_accumulating(c, th) ==
  LET sum == TITLE_WEIGHT * c.tm + BODY_WEIGHT * c.bm
      fresh == IF c.pri
               THEN (sum * CATEGORY_MULTIPLIER_NUM) \div CATEGORY_MULTIPLIER_DEN
               ELSE sum
      score == IF result = NoResult THEN fresh ELSE result.score + fresh
  IN [score |-> score, triggered |-> score >= th]

analyze(c, th) ==
  LET sum == TITLE_WEIGHT * c.tm + BODY_WEIGHT * c.bm
      score == IF c.pri
               THEN (sum * CATEGORY_MULTIPLIER_NUM) \div CATEGORY_MULTIPLIER_DEN
               ELSE sum
  IN [score |-> score, triggered |-> score >= th]

ScoreValues == {analyze(c, 0).score : c \in Contents} \cup {BACKFILL_SCORE}

\* str.lower() on the categories at hand.
lower(category) ==
  CASE category = "Governance" -> "governance"
    [] category = "Off-topic" -> "off-topic"
    [] OTHER -> category

\* pattern.search(text): a match object or None.
search(pattern, text) == pattern \in text

\* The loop over the patterns of one group: how many of them match the text.
RECURSIVE MatchCount(_, _)
MatchCount(patterns, text) ==
  IF patterns = <<>> THEN 0
  ELSE (IF search(Head(patterns), text) THEN 1 ELSE 0)
       + MatchCount(Tail(patterns), text)

\* The loop over self._compiled.items().
RECURSIVE GroupsMatchCount(_, _, _)
GroupsMatchCount(groups, comp, text) ==
  IF groups = <<>> THEN 0
  ELSE MatchCount(comp[Head(groups)], text)
       + GroupsMatchCount(Tail(groups), comp, text)

\* What the two loops and the category test of analyze find for a post.
content(post, comp) ==
  [tm |-> GroupsMatchCount(DictList, comp, post.title),
   bm |-> GroupsMatchCount(DictList, comp, post.body),
   pri |-> lower(post.category) \in PRIORITY_CATEGORIES]

RECURSIVE PatternCount(_, _)
PatternCount(groups, comp) ==
  IF groups = <<>> THEN 0
  ELSE Len(comp[Head(groups)]) + PatternCount(Tail(groups), comp)

InSeq(x, seq) == \E k \in 1..Len(seq) : seq[k] = x

\* re.compile(pattern, re.IGNORECASE) returns a pattern (it raises re.error
\* otherwise).
compiles(pattern) == pattern # BadPattern

\* Variant: the group is created before the pattern is compiled.
add_keyword_group_first(keys, comp, group, pattern) ==
  LET withGroup == IF InSeq(group, keys) THEN keys ELSE Append(keys, group)
  IN IF ~compiles(pattern)
     THEN [keys |-> withGroup, compiled |-> comp, error |-> "invalid_pattern"]
     ELSE [keys |-> withGroup,
           compiled |-> [comp EXCEPT ![group] = Append(@, pattern)],
           error |-> "none"]

\* add_keyword(group, pattern): compile (ValueError on re.error), create the
\* group when the dict has none of that name, append.
add_keyword(keys, comp, group, pattern) ==
  IF ~compiles(pattern)
  THEN [keys |-> keys, compiled |-> comp, error |-> "invalid_pattern"]
  ELSE [keys |-> IF InSeq(group, keys) THEN keys ELSE Append(keys, group),
        compiled |-> [comp EXCEPT ![group] = Append(@, pattern)],
        error |-> "none"]

\* remove_keyword(group, pattern): the group's list is replaced by the list of
\* its patterns of another text; a group the dict does not hold is passed by.
remove_keyword(keys, comp, group, pattern) ==
  IF InSeq(group, keys)
  THEN [comp EXCEPT ![group] = SelectSeq(@, LAMBDA q : q # pattern)]
  ELSE comp

\* What an analyze call in progress holds after a mutation of the dict by
\* another thread: an append reaches the list object its inner loop iterates,
\* a list bound anew (rebound) does not, and the inner loop stays on the
\* object it has.
observe(iter, comp, group, rebound) ==
  IF iter.pc \notin {"groups", "patterns"} THEN iter
  ELSE [iter EXCEPT
          !.sets = @ \cup {comp},
          !.list = IF iter.pc = "patterns" /\ iter.g = group /\ iter.live /\ ~rebound
                   THEN comp[group] ELSE @,
          !.live = IF iter.g = group /\ rebound THEN FALSE ELSE @]

\* An analyze call in progress has room for one more change beside it.
room(iter) ==
  iter.pc \in {"groups", "patterns"} => Cardinality(iter.sets) <= MaxMutations

\* get_all_keywords(): group -> pattern texts, for the groups of the dict.
get_all_keywords(keys, comp) ==
  [g \in {keys[k] : k \in 1..Len(keys)} |-> comp[g]]

\* Variant: the loop over a group's patterns ends at a pattern that does not
\* compile.
RECURSIVE compile_group_stops(_)
compile_group_stops(patterns) ==
  IF patterns = <<>> THEN <<>>
  ELSE IF compiles(Head(patterns))
       THEN <<Head(patterns)>> \o compile_group_stops(Tail(patterns))
       ELSE <<>>

\* ContentAnalyzer.__init__, one group: every pattern is compiled, and one that
\* raises re.error is logged and left out.
RECURSIVE compile_group(_)
compile_group(patterns) ==
  IF patterns = <<>> THEN <<>>
  ELSE IF compiles(Head(patterns))
       THEN <<Head(patterns)>> \o compile_group(Tail(patterns))
       ELSE compile_group(Tail(patterns))

\* ContentAnalyzer.__init__: self._compiled[group_name] = compiled, for every
\* group of the mapping.
construct(keywords) ==
  [keys |-> GroupList,
   compiled |-> [g \in DictGroups |->
                   IF g \in Groups THEN compile_group(keywords[g]) ELSE <<>>]]

\* run_continuous after the constructor: analyzer.add_keyword for every row of
\* state.list_keywords(), a ValueError passed over.
RECURSIVE load_keywords(_, _, _)
load_keywords(keys, comp, rows) ==
  IF rows = <<>> THEN [keys |-> keys, compiled |-> comp]
  ELSE LET r == add_keyword(keys, comp, Head(rows).group, Head(rows).text)
       IN load_keywords(r.keys, r.compiled, Tail(rows))

\* The analyzer run_continuous starts with, and the one run_once starts with.
start_continuous(keywords, rows) ==
  LET c == construct(keywords) IN load_keywords(c.keys, c.compiled, rows)

start_once(keywords, rows) == construct(keywords)

\* forums of run_continuous and run_once: a forum object for every entry of
\* config.forums that is enabled.
RECURSIVE enabled_forums(_)
enabled_forums(cfg) ==
  IF cfg = <<>> THEN <<>>
  ELSE (IF Head(cfg).enabled THEN <<Head(cfg).name>> ELSE <<>>)
       \o enabled_forums(Tail(cfg))

\* ------------------------------------------- ledger: keywords and switches
\* keyword_configs.id: an INTEGER PRIMARY KEY of SQLite, one more than the
\* largest id of the table.
next_id(rows) == IF rows = <<>> THEN 1 ELSE rows[Len(rows)].id + 1

\* add_user_keyword(group, pattern): a row is added, whatever the table holds.
add_user_keyword(rows, group, pattern) ==
  Append(rows, [id |-> next_id(rows), group |-> group, text |-> pattern])

\* remove_user_keyword(keyword_id): the row of that id, if there is one, is
\* deleted.
remove_user_keyword(rows, keyword_id) ==
  SelectSeq(rows, LAMBDA r : r.id # keyword_id)

\* list_keywords(): the rows of the table.
list_keywords(rows) == {rows[k] : k \in 1..Len(rows)}

\* disable_item(kind, key, by) and enable_item(kind, key): a record of the
\* item exists after the one and none after the other, whatever was there.
disable_item(dis, item_kind, key) == dis \cup {<<item_kind, key>>}

enable_item(dis, item_kind, key) == dis \ {<<item_kind, key>>}

list_disabled_items(dis, item_kind) == {d[2] : d \in {e \in dis : e[1] = item_kind}}

\* The options of the remove modal: "db:id:group:pattern" for every row, and
\* "cfg:group:pattern" for every active pattern whose text no row has.
remove_options(rows, keys, comp) ==
  LET db_patterns == {r.text : r \in list_keywords(rows)}
      all_keywords == get_all_keywords(keys, comp)
  IN {[src |-> "db", id |-> r.id, group |-> r.group, text |-> r.text] :
        r \in list_keywords(rows)}
     \cup
     UNION {{[src |-> "cfg", id |-> 0, group |-> g, text |-> all_keywords[g][k]] :
               k \in {j \in 1..Len(all_keywords[g]) :
                        all_keywords[g][j] \notin db_patterns}} :
            g \in DOMAIN all_keywords}

\* How often a text stands in a list of patterns.
Occurrences(patterns, text) ==
  Cardinality({k \in 1..Len(patterns) : patterns[k] = text})

\* --------------------------------------------------------------- ledger
\* Variant: a post that has a row is never notified, whatever its row holds.
should_notify_new_only(db, post_id, score) ==
  db.seen[post_id] = NoRow

\* Variant: a post seen but not notified is notified only when its score reaches
\* the threshold, as the docstring of should_notify words it.
should_notify_scored(db, post_id, score) ==
  LET existing == db.seen[post_id]
  IN IF existing = NoRow THEN TRUE
     ELSE IF existing.notified_at # Null THEN FALSE
     ELSE score >= threshold

should_notify(db, post_id, score) ==
  LET existing == db.seen[post_id]
  IN IF existing = NoRow THEN TRUE
     ELSE IF existing.notified_at # Null THEN FALSE
     ELSE TRUE

\* Variant: the upsert replaces the row it finds.
mark_seen_replaces(db, post_id, score) ==
  [db EXCEPT !.seen[post_id] =
     [detection_score |-> score, notified_at |-> Null]]

\* Variant: the score of the row found is overwritten, not raised.
mark_seen_overwrites(db, post_id, score) ==
  LET existing == db.seen[post_id]
  IN IF existing # NoRow
     THEN [db EXCEPT !.seen[post_id].detection_score = score]
     ELSE [db EXCEPT !.seen[post_id] =
                        [detection_score |-> score, notified_at |-> Null]]

\* max(score, existing.detection_score or 0): the stored score is a number, so
\* "or 0" changes nothing.
mark_seen(db, post_id, score) ==
  LET existing == db.seen[post_id]
  IN IF existing # NoRow
     THEN [db EXCEPT !.seen[post_id].detection_score =
                        Max(score, existing.detection_score)]
     ELSE [db EXCEPT !.seen[post_id] =
                        [detection_score |-> score, notified_at |-> Null]]

\* The writes mark_notified adds to its session before the commit: an update of
\* the row its query found (existing), or a new row, and the log entry.
mark_notified_session(db, post_id, score, now) ==
  [post_id |-> post_id, score |-> score, now |-> now,
   existing |-> db.seen[post_id] # NoRow]

\* Variant: the row is written without its notified_at.
mark_notified_commit_unstamped(db, s) ==
  [seen |-> [db.seen EXCEPT ![s.post_id] =
               [detection_score |-> s.score, notified_at |-> Null]],
   log |-> Append(db.log, [post_id |-> s.post_id, score |-> s.score])]

\* Variant: the commit carries the seen_posts row alone.
mark_notified_commit_row_only(db, s) ==
  [seen |-> [db.seen EXCEPT ![s.post_id] =
               [detection_score |-> s.score, notified_at |-> s.now]],
   log |-> db.log]

\* Variant: the commit carries the notification_log entry alone.
mark_notified_commit_log_only(db, s) ==
  [seen |-> db.seen,
   log |-> Append(db.log, [post_id |-> s.post_id, score |-> s.score])]

\* Variant: the log keeps the entry of the latest notification alone.
mark_notified_commit_latest_only(db, s) ==
  [seen |-> [db.seen EXCEPT ![s.post_id] =
               [detection_score |-> s.score, notified_at |-> s.now]],
   log |-> <<[post_id |-> s.post_id, score |-> s.score]>>]

\* session.commit() of mark_notified: the seen_posts upsert and the
\* notification_log insert in one transaction.
mark_notified_commit(db, s) ==
  [seen |-> [db.seen EXCEPT ![s.post_id] =
               [detection_score |-> s.score, notified_at |-> s.now]],
   log |-> Append(db.log, [post_id |-> s.post_id, score |-> s.score])]

\* get_stats(): the three counts.
get_stats(db) ==
  [total_posts_seen |-> Cardinality({i \in Posts : db.seen[i] # NoRow}),
   total_posts_notified |->
     Cardinality({i \in Posts : db.seen[i] # NoRow /\ db.seen[i].notified_at # Null}),
   total_notifications_sent |-> Len(db.log)]

\* ------------------------------------------- the seen_posts table, by rows
\* session.query(SeenPost).filter_by(post_id=post_id).first(): the id of the
\* first row of that post_id, 0 for None.
first(rows, post_id) ==
  LET found == {k \in 1..Len(rows) : rows[k].post_id = post_id}
  IN IF found = {} THEN 0 ELSE CHOOSE k \in found : \A j \in found : k <= j

\* How many rows the table holds for a post_id.
RowCount(rows, post_id) ==
  Cardinality({k \in 1..Len(rows) : rows[k].post_id = post_id})

\* Variant: post_id without its unique index: the INSERT always goes through.
insert_unconstrained(rows, row) ==
  [rows |-> Append(rows, row), error |-> "none"]

\* INSERT INTO seen_posts at the commit: post_id is declared unique, so the
\* statement fails with IntegrityError when the table holds a row of that
\* post_id, and adds the row otherwise.
insert(rows, row) ==
  IF first(rows, row.post_id) # 0
  THEN [rows |-> rows, error |-> "integrity_error"]
  ELSE [rows |-> Append(rows, row), error |-> "none"]

\* mark_seen up to its commit: the query, then the raised score on the row
\* found, or a new row.
mark_seen_tx(rows, post_id, score) ==
  LET existing == first(rows, post_id)
  IN [pc |-> "open", op |-> "mark_seen", existing |-> existing,
      loaded |-> IF existing # 0 THEN rows[existing].detection_score ELSE Null,
      row |-> [post_id |-> post_id,
               detection_score |-> IF existing # 0
                                   THEN Max(score, rows[existing].detection_score)
                                   ELSE score,
               notified_at |-> IF existing # 0 THEN rows[existing].notified_at
                               ELSE Null]]

\* mark_notified up to its commit: the query, then notified_at and the score
\* on the row found, or a new row with both.
mark_notified_tx(rows, post_id, score, now) ==
  LET existing == first(rows, post_id)
  IN [pc |-> "open", op |-> "mark_notified", existing |-> existing,
      loaded |-> IF existing # 0 THEN rows[existing].detection_score ELSE Null,
      row |-> [post_id |-> post_id, detection_score |-> score,
               notified_at |-> now]]

\* session.commit(): the UPDATE of the row loaded, by its id and for the
\* columns whose value the call has changed (notified_at is a new time in
\* every mark_notified), or the INSERT.
commit(rows, t) ==
  IF t.existing # 0
  THEN [rows |->
          [rows EXCEPT
             ![t.existing].detection_score =
                IF t.row.detection_score # t.loaded THEN t.row.detection_score ELSE @,
             ![t.existing].notified_at =
                IF t.op = "mark_notified" THEN t.row.notified_at ELSE @],
        error |-> "none"]
  ELSE insert(rows, t.row)

\* ----------------------------------------------------------------- Init
EmptyLedger == [seen |-> [i \in Posts |-> NoRow], log |-> <<>>]

InitTable ==
  /\ table = <<>>
  /\ tx = [s \in Sessions |-> IdleTx]

InitPipeline ==
  /\ ledger = [l \in Ledgers |-> EmptyLedger]
  /\ clock = 1
  /\ threshold \in Thresholds
  /\ webhook \in BOOLEAN
  /\ pc = [p \in Procs |-> "idle"]
  /\ kind = [p \in Procs |-> IF p = "live" THEN "live" ELSE "full"]
  /\ forumsLeft = [p \in Procs |-> <<>>]
  /\ queue = [p \in Procs |-> <<>>]
  /\ cur = [p \in Procs |-> NoCur]
  /\ sess = [p \in Procs |-> NoSess]
  /\ delivered = [l \in Ledgers |-> [i \in Posts |-> 0]]
  /\ mnDone = [l \in Ledgers |-> [i \in Posts |-> FALSE]]
  /\ seenMax = [i \in Posts |-> -1]
  /\ retryDue = [i \in Posts |-> FALSE]
  /\ lastOp = [op |-> "init", p |-> "live", id |-> 0, score |-> 0]
  /\ InitTable

IdleCall ==
  [pc |-> "idle", attempt |-> 0, remaining |-> 0, wait |-> 0,
   lastResp |-> NoResp, kinds |-> "5xx", nreq |-> 0, outcome |-> "none"]

\* _last_request_time = 0 and the loop's clock is far from 0: the first call
\* finds the interval elapsed.
InitGate ==
  /\ gate = [locked |-> FALSE, loop |-> "none", elapsed |-> MIN_INTERVAL]
  /\ call = [c \in Callers |-> IdleCall]
  /\ sinceDispatch = MIN_INTERVAL

\* ContentAnalyzer(keywords=config.keywords, threshold=...): one built-in
\* pattern; a group without patterns holds the empty list.
InitScoring ==
  /\ compiled = construct(keywordsCfg).compiled
  /\ result = NoResult
  /\ memo = NoMemo

\* The process as run_continuous has started it on an empty ledger.
InitConfig == keywordsCfg = ConfigKeywords

InitRest ==
  /\ dictKeys = construct(keywordsCfg).keys
  /\ addError = "none"
  /\ it = IdleIter
  /\ kwRows = <<>>
  /\ disabled = {}
  /\ forumRows = <<>>
  /\ cfgForums = ConfigForums
  /\ forums = ForumList
  /\ shutdown = "unset"
  /\ views = NoViews
  /\ adminOp = [op |-> "start_continuous"]

Init ==
  InitPipeline /\ InitGate /\ InitConfig /\ InitScoring /\ InitRest /\ item = NoItem

\* The fetch gate on its own: the pipeline's configuration plays no part.
InitFetch == Init /\ threshold = DEFAULT_THRESHOLD /\ webhook

\* The analyzer's pattern lists on their own, for a deployment out of
\* ConfigMappings.
InitKeywords ==
  /\ InitPipeline /\ InitGate
  /\ keywordsCfg \in ConfigMappings
  /\ InitScoring /\ InitRest
  /\ item = NoItem /\ threshold = DEFAULT_THRESHOLD /\ webhook

\* The analyzer on its own, for one post out of Items.
InitAnalyze ==
  /\ InitPipeline /\ InitGate /\ InitConfig /\ InitScoring /\ InitRest
  /\ webhook /\ item \in Items

\* Variant: the scans open the database of the monitoring loop.
LedgerOf_live(p) == "live"

\* The database a thread opens: config.database_path for the monitoring loop,
\* full_scan.db and backfill_scan.db for the scans.
LedgerOf(p) == kind[p]

\* The monitoring loop between two cycles, with post 1 alerted and post 2 seen
\* without a match in dao_monitor.db, and the scan databases empty.
InitIsolated ==
  /\ ledger = [l \in Ledgers |->
                 IF l = "live"
                 THEN mark_seen(mark_notified_commit(EmptyLedger,
                                  mark_notified_session(EmptyLedger, 1, TITLE_WEIGHT, 1)), 2, 0)
                 ELSE EmptyLedger]
  /\ clock = 2
  /\ threshold = DEFAULT_THRESHOLD
  /\ webhook \in BOOLEAN
  /\ pc = [p \in Procs |-> "idle"]
  /\ kind = [p \in Procs |-> IF p = "live" THEN "live" ELSE "full"]
  /\ forumsLeft = [p \in Procs |-> <<>>]
  /\ queue = [p \in Procs |-> <<>>]
  /\ cur = [p \in Procs |-> NoCur]
  /\ sess = [p \in Procs |-> NoSess]
  /\ delivered = [l \in Ledgers |-> [i \in Posts |-> IF l = "live" /\ i = 1 THEN 1 ELSE 0]]
  /\ mnDone = [l \in Ledgers |-> [i \in Posts |-> l = "live" /\ i = 1]]
  /\ seenMax = [i \in Posts |-> IF i = 2 THEN 0 ELSE -1]
  /\ retryDue = [i \in Posts |-> FALSE]
  /\ lastOp = [op |-> "step", p |-> "live", id |-> 0, score |-> 0]
  /\ InitTable
  /\ InitGate /\ InitConfig /\ InitScoring /\ InitRest /\ item = NoItem

Op(name, p, i, sc) == [op |-> name, p |-> p, id |-> i, score |-> sc]

\* ------------------------------------------------------ the cycle's steps
\* run_continuous: while not shutdown.is_set(): await monitor_cycle(...)
CycleStart_ignores_signal ==
  /\ pc["live"] = "idle"
  /\ shutdown # "stopped"
  /\ pc' = [pc EXCEPT !["live"] = "fetch"]
  /\ forumsLeft' = [forumsLeft EXCEPT !["live"] = forums]
  /\ lastOp' = Op("step", "live", 0, 0)
  /\ UNCHANGED <<ledgerVars, configVars, tableVars, kind, queue, cur, sess>>
  /\ UNCHANGED <<delivered, mnDone, seenMax, retryDue>>
  /\ UNCHANGED <<gateVars, scoringVars, restVars>>

\* while not shutdown.is_set(): await monitor_cycle(forums, ...), with the
\* forums list run_continuous built when it started.
CycleStart ==
  /\ pc["live"] = "idle"
  /\ shutdown = "unset"
  /\ pc' = [pc EXCEPT !["live"] = "fetch"]
  /\ forumsLeft' = [forumsLeft EXCEPT !["live"] = forums]
  /\ lastOp' = Op("step", "live", 0, 0)
  /\ UNCHANGED <<ledgerVars, configVars, tableVars, kind, queue, cur, sess>>
  /\ UNCHANGED <<delivered, mnDone, seenMax, retryDue>>
  /\ UNCHANGED <<gateVars, scoringVars, restVars>>

\* handle_scan_submission -> _run_full_scan, handle_add_submission ->
\* _run_backfill_scan: a daemon thread with an event loop of its own.
ScanStart(p, k) ==
  /\ pc[p] = "idle"
  /\ pc' = [pc EXCEPT ![p] = "fetch"]
  /\ kind' = [kind EXCEPT ![p] = k]
  /\ forumsLeft' = [forumsLeft EXCEPT ![p] = enabled_forums(cfgForums)]
  /\ lastOp' = Op("step", p, 0, 0)
  /\ UNCHANGED <<ledgerVars, configVars, tableVars, queue, cur, sess>>
  /\ UNCHANGED <<delivered, mnDone, seenMax, retryDue>>
  /\ UNCHANGED <<gateVars, scoringVars, restVars>>

\* for forum in forums: posts = await forum.fetch_latest_posts(...). A failed
\* fetch is caught inside fetch_latest_posts and gives the empty list.
FetchForum(p) ==
  /\ pc[p] = "fetch"
  /\ forumsLeft[p] # <<>>
  /\ \E S \in SUBSET PostsOf(Head(forumsLeft[p])) :
       queue' = [queue EXCEPT ![p] = SeqOfSet(S)]
  /\ forumsLeft' = [forumsLeft EXCEPT ![p] = Tail(@)]
  /\ pc' = [pc EXCEPT ![p] = "next"]
  /\ lastOp' = Op("step", p, 0, 0)
  /\ UNCHANGED <<ledgerVars, configVars, tableVars, kind, cur, sess>>
  /\ UNCHANGED <<delivered, mnDone, seenMax, retryDue>>
  /\ UNCHANGED <<gateVars, scoringVars, restVars>>

\* self.http.get raised inside fetch_latest_posts (retries exhausted, a client
\* error): DiscourseForum catches it, logs fetch_failed and returns the list it
\* has, which is empty. The caller sees a forum without posts.
FetchFail(p) ==
  /\ pc[p] = "fetch"
  /\ forumsLeft[p] # <<>>
  /\ queue' = [queue EXCEPT ![p] = <<>>]
  /\ forumsLeft' = [forumsLeft EXCEPT ![p] = Tail(@)]
  /\ pc' = [pc EXCEPT ![p] = "next"]
  /\ lastOp' = Op("fetch_fail", p, 0, 0)
  /\ UNCHANGED <<ledgerVars, configVars, tableVars, kind, cur, sess>>
  /\ UNCHANGED <<delivered, mnDone, seenMax, retryDue>>
  /\ UNCHANGED <<gateVars, scoringVars, restVars>>

\* The forums are exhausted: the cycle (or the scan thread) ends.
CycleEnd(p) ==
  /\ pc[p] = "fetch"
  /\ forumsLeft[p] = <<>>
  /\ pc' = [pc EXCEPT ![p] = "idle"]
  /\ lastOp' = Op("step", p, 0, 0)
  /\ UNCHANGED <<ledgerVars, configVars, tableVars, kind, forumsLeft, queue, cur, sess>>
  /\ UNCHANGED <<delivered, mnDone, seenMax, retryDue>>
  /\ UNCHANGED <<gateVars, scoringVars, restVars>>

\* The posts of the forum are exhausted.
ForumDone(p) ==
  /\ pc[p] = "next"
  /\ queue[p] = <<>>
  /\ pc' = [pc EXCEPT ![p] = "fetch"]
  /\ lastOp' = Op("step", p, 0, 0)
  /\ UNCHANGED <<ledgerVars, configVars, tableVars, kind, forumsLeft, queue, cur, sess>>
  /\ UNCHANGED <<delivered, mnDone, seenMax, retryDue>>
  /\ UNCHANGED <<gateVars, scoringVars, restVars>>

\* for post in posts: fetch the details, then result = analyzer.analyze(post).
\* The live cycle records a post that is not triggered; the scans pass it by.
AnalyzePost(p) ==
  /\ pc[p] = "next"
  /\ queue[p] # <<>>
  /\ kind[p] \in {"live", "full"}
  /\ \E c \in Contents :
       LET r == analyze(c, threshold)
       IN /\ cur' = [cur EXCEPT ![p] =
                       IF r.triggered \/ kind[p] = "live"
                       THEN [id |-> Head(queue[p]), score |-> r.score]
                       ELSE NoCur]
          /\ pc' = [pc EXCEPT ![p] =
                      IF r.triggered THEN "check"
                      ELSE IF kind[p] = "live" THEN "seen" ELSE "next"]
  /\ queue' = [queue EXCEPT ![p] = Tail(@)]
  /\ lastOp' = Op("step", p, 0, 0)
  /\ UNCHANGED <<ledgerVars, configVars, tableVars, kind, forumsLeft, sess>>
  /\ UNCHANGED <<delivered, mnDone, seenMax, retryDue>>
  /\ UNCHANGED <<gateVars, scoringVars, restVars>>

\* _async_backfill: the new keyword alone is searched in title and body, and a
\* match is scored 1.0.
BackfillMatch(p) ==
  /\ pc[p] = "next"
  /\ queue[p] # <<>>
  /\ kind[p] = "backfill"
  /\ \E matched \in BOOLEAN :
       /\ cur' = [cur EXCEPT ![p] =
                    IF matched
                    THEN [id |-> Head(queue[p]), score |-> BACKFILL_SCORE]
                    ELSE NoCur]
       /\ pc' = [pc EXCEPT ![p] = IF matched THEN "check" ELSE "next"]
  /\ queue' = [queue EXCEPT ![p] = Tail(@)]
  /\ lastOp' = Op("step", p, 0, 0)
  /\ UNCHANGED <<ledgerVars, configVars, tableVars, kind, forumsLeft, sess>>
  /\ UNCHANGED <<delivered, mnDone, seenMax, retryDue>>
  /\ UNCHANGED <<gateVars, scoringVars, restVars>>

\* if not result.triggered: state.mark_seen(...); continue
MarkSeen(p) ==
  /\ pc[p] = "seen"
  /\ ledger' = [ledger EXCEPT ![LedgerOf(p)] =
                  mark_seen(@, cur[p].id, cur[p].score)]
  /\ seenMax' = [seenMax EXCEPT ![cur[p].id] =
                   IF mnDone[LedgerOf(p)][cur[p].id] THEN @
                   ELSE Max(@, cur[p].score)]
  /\ pc' = [pc EXCEPT ![p] = "next"]
  /\ cur' = [cur EXCEPT ![p] = NoCur]
  /\ lastOp' = Op("mark_seen", p, cur[p].id, cur[p].score)
  /\ UNCHANGED <<clock, configVars, tableVars, kind, forumsLeft, queue, sess>>
  /\ UNCHANGED <<delivered, mnDone, retryDue>>
  /\ UNCHANGED <<gateVars, scoringVars, restVars>>

\* session.commit() of mark_seen raised: nothing is written, and the exception
\* leaves the loop over the forum's posts for the except of the forum.
MarkSeenFail(p) ==
  /\ pc[p] = "seen"
  /\ pc' = [pc EXCEPT ![p] = "error"]
  /\ queue' = [queue EXCEPT ![p] = <<>>]
  /\ cur' = [cur EXCEPT ![p] = NoCur]
  /\ lastOp' = Op("mark_seen_fail", p, cur[p].id, 0)
  /\ UNCHANGED <<ledgerVars, configVars, tableVars, kind, forumsLeft, sess>>
  /\ UNCHANGED <<delivered, mnDone, seenMax, retryDue>>
  /\ UNCHANGED <<gateVars, scoringVars, restVars>>

\* state.should_notify raised in the monitoring cycle (the query failed): the
\* exception leaves the loop over the forum's posts for the except of the
\* forum, like the one of mark_seen.
ShouldNotifyFail(p) ==
  /\ pc[p] = "check"
  /\ pc' = [pc EXCEPT ![p] = "error"]
  /\ queue' = [queue EXCEPT ![p] = <<>>]
  /\ cur' = [cur EXCEPT ![p] = NoCur]
  /\ lastOp' = Op("should_notify_fail", p, cur[p].id, 0)
  /\ UNCHANGED <<ledgerVars, configVars, tableVars, kind, forumsLeft, sess>>
  /\ UNCHANGED <<delivered, mnDone, seenMax, retryDue>>
  /\ UNCHANGED <<gateVars, scoringVars, restVars>>

\* stats = state.get_stats() raised after the loop over the forums: no try
\* holds it, neither in monitor_cycle nor around the call of monitor_cycle, so
\* the exception ends run_continuous (or run_once) and with it the process.
GetStatsFail(p) ==
  /\ pc[p] = "fetch"
  /\ forumsLeft[p] = <<>>
  /\ pc' = [pc EXCEPT ![p] = "fatal"]
  /\ lastOp' = Op("get_stats_fail", p, 0, 0)
  /\ UNCHANGED <<ledgerVars, configVars, tableVars, kind, forumsLeft, queue, cur, sess>>
  /\ UNCHANGED <<delivered, mnDone, seenMax, retryDue>>
  /\ UNCHANGED <<gateVars, scoringVars, restVars>>

\* except Exception of the forum: slack.send_error(forum.name, str(e)), whose
\* own failure is passed over; the cycle goes on to the next forum.
SendError(p) ==
  /\ pc[p] = "error"
  /\ pc' = [pc EXCEPT ![p] = "fetch"]
  /\ \E sent \in BOOLEAN :
       /\ sent => webhook
       /\ lastOp' = Op(IF sent THEN "send_error" ELSE "send_error_fail", p, 0, 0)
  /\ UNCHANGED <<ledgerVars, configVars, tableVars, kind, forumsLeft, queue, cur, sess>>
  /\ UNCHANGED <<delivered, mnDone, seenMax, retryDue>>
  /\ UNCHANGED <<gateVars, scoringVars, restVars>>

\* Variant: the answer of should_notify is not acted on.
ShouldNotify_unheeded(p) ==
  /\ pc[p] = "check"
  /\ pc' = [pc EXCEPT ![p] = "send"]
  /\ lastOp' = Op("step", p, 0, 0)
  /\ UNCHANGED <<ledgerVars, configVars, tableVars, kind, forumsLeft, queue, cur, sess>>
  /\ UNCHANGED <<delivered, mnDone, seenMax, retryDue>>
  /\ UNCHANGED <<gateVars, scoringVars, restVars>>

\* if not state.should_notify(post.post_id, result.score): continue
ShouldNotify(p) ==
  /\ pc[p] = "check"
  /\ LET ok == should_notify(ledger[LedgerOf(p)], cur[p].id, cur[p].score)
     IN /\ pc' = [pc EXCEPT ![p] = IF ok THEN "send" ELSE "next"]
        /\ cur' = [cur EXCEPT ![p] = IF ok THEN @ ELSE NoCur]
  /\ lastOp' = Op("step", p, 0, 0)
  /\ UNCHANGED <<ledgerVars, configVars, tableVars, kind, forumsLeft, queue, sess>>
  /\ UNCHANGED <<delivered, mnDone, seenMax, retryDue>>
  /\ UNCHANGED <<gateVars, scoringVars, restVars>>

\* slack.send_alert / slack._send returned: the webhook answered 200.
SendOk(p) ==
  /\ pc[p] = "send"
  /\ webhook
  /\ delivered' = [delivered EXCEPT ![LedgerOf(p)][cur[p].id] =
                     IF @ = 0 THEN 1 ELSE 2]
  /\ retryDue' = IF p = "live" THEN [retryDue EXCEPT ![cur[p].id] = FALSE]
                 ELSE retryDue
  /\ pc' = [pc EXCEPT ![p] = "mark"]
  /\ lastOp' = Op("send_ok", p, cur[p].id, 0)
  /\ UNCHANGED <<ledgerVars, configVars, tableVars, kind, forumsLeft, queue, cur, sess>>
  /\ UNCHANGED <<mnDone, seenMax>>
  /\ UNCHANGED <<gateVars, scoringVars, restVars>>

\* Variant: the failed delivery leaves the loop over the forum's posts, as it
\* does in the scans.
SendFailAborts(p) ==
  /\ pc[p] = "send"
  /\ webhook \/ p = "live"
  /\ retryDue' = IF p = "live" THEN [retryDue EXCEPT ![cur[p].id] = TRUE]
                 ELSE retryDue
  /\ pc' = [pc EXCEPT ![p] = "next"]
  /\ queue' = [queue EXCEPT ![p] = <<>>]
  /\ cur' = [cur EXCEPT ![p] = NoCur]
  /\ lastOp' = Op("send_fail", p, cur[p].id, 0)
  /\ UNCHANGED <<ledgerVars, configVars, tableVars, kind, forumsLeft, sess>>
  /\ UNCHANGED <<delivered, mnDone, seenMax>>
  /\ UNCHANGED <<gateVars, scoringVars, restVars>>

\* Variant: the failed delivery is swallowed and the post is marked all the same.
SendFailMarks(p) ==
  /\ pc[p] = "send"
  /\ webhook \/ p = "live"
  /\ retryDue' = IF p = "live" THEN [retryDue EXCEPT ![cur[p].id] = TRUE]
                 ELSE retryDue
  /\ pc' = [pc EXCEPT ![p] = "mark"]
  /\ lastOp' = Op("send_fail", p, cur[p].id, 0)
  /\ UNCHANGED <<ledgerVars, configVars, tableVars, kind, forumsLeft, queue, cur, sess>>
  /\ UNCHANGED <<delivered, mnDone, seenMax>>
  /\ UNCHANGED <<gateVars, scoringVars, restVars>>

\* slack._send raised (a status other than 200, a network error, or no webhook
\* url in the live cycle). The live cycle catches it per post; in a scan it
\* leaves the loop over the forum's posts.
SendFail(p) ==
  /\ pc[p] = "send"
  /\ webhook \/ p = "live"
  /\ retryDue' = IF p = "live" THEN [retryDue EXCEPT ![cur[p].id] = TRUE]
                 ELSE retryDue
  /\ pc' = [pc EXCEPT ![p] = "next"]
  /\ queue' = [queue EXCEPT ![p] = IF p = "live" THEN @ ELSE <<>>]
  /\ cur' = [cur EXCEPT ![p] = NoCur]
  /\ lastOp' = Op("send_fail", p, cur[p].id, 0)
  /\ UNCHANGED <<ledgerVars, configVars, tableVars, kind, forumsLeft, sess>>
  /\ UNCHANGED <<delivered, mnDone, seenMax>>
  /\ UNCHANGED <<gateVars, scoringVars, restVars>>

\* The scans build no notifier without a webhook url (slack = None) and go on
\* to mark_notified.
SkipSend(p) ==
  /\ pc[p] = "send"
  /\ p \in Scans
  /\ ~webhook
  /\ pc' = [pc EXCEPT ![p] = "mark"]
  /\ lastOp' = Op("step", p, 0, 0)
  /\ UNCHANGED <<ledgerVars, configVars, tableVars, kind, forumsLeft, queue, cur, sess>>
  /\ UNCHANGED <<delivered, mnDone, seenMax, retryDue>>
  /\ UNCHANGED <<gateVars, scoringVars, restVars>>

\* mark_notified up to its commit: now = datetime.now(...) is read, the row and
\* the log entry are added to the session.
MarkNotifiedBegin(p) ==
  /\ pc[p] = "mark"
  /\ sess' = [sess EXCEPT ![p] =
                mark_notified_session(ledger[LedgerOf(p)], cur[p].id, cur[p].score, clock)]
  /\ pc' = [pc EXCEPT ![p] = "commit"]
  /\ lastOp' = Op("step", p, 0, 0)
  /\ UNCHANGED <<ledgerVars, configVars, tableVars, kind, forumsLeft, queue, cur>>
  /\ UNCHANGED <<delivered, mnDone, seenMax, retryDue>>
  /\ UNCHANGED <<gateVars, scoringVars, restVars>>

\* Variant: seen_posts.post_id without its unique index, so that the INSERT of
\* a session that found no row is committed whatever the table holds by then.
MarkNotifiedCommit_unconstrained(p) ==
  /\ pc[p] = "commit"
  /\ ledger' = [ledger EXCEPT ![LedgerOf(p)] = mark_notified_commit(@, sess[p])]
  /\ mnDone' = [mnDone EXCEPT ![LedgerOf(p)][sess[p].post_id] = TRUE]
  /\ sess' = [sess EXCEPT ![p] = NoSess]
  /\ cur' = [cur EXCEPT ![p] = NoCur]
  /\ pc' = [pc EXCEPT ![p] = "next"]
  /\ seenMax' = IF p = "live" THEN [seenMax EXCEPT ![sess[p].post_id] = -1]
                ELSE seenMax
  /\ clock' = clock + 1
  /\ lastOp' = Op("mark_notified", p, sess[p].post_id, 0)
  /\ UNCHANGED <<configVars, tableVars, kind, forumsLeft, queue>>
  /\ UNCHANGED <<delivered, retryDue>>
  /\ UNCHANGED <<gateVars, scoringVars, restVars>>

\* session.commit() of mark_notified: the UPDATE of the row the query found, or
\* the INSERT of a new row when no other session has committed a row of that
\* post_id since the query (post_id is unique). A call that starts after this
\* commit reads a later time.
MarkNotifiedCommit(p) ==
  /\ pc[p] = "commit"
  /\ sess[p].existing \/ ledger[LedgerOf(p)].seen[sess[p].post_id] = NoRow
  /\ ledger' = [ledger EXCEPT ![LedgerOf(p)] = mark_notified_commit(@, sess[p])]
  /\ mnDone' = [mnDone EXCEPT ![LedgerOf(p)][sess[p].post_id] = TRUE]
  /\ sess' = [sess EXCEPT ![p] = NoSess]
  /\ cur' = [cur EXCEPT ![p] = NoCur]
  /\ pc' = [pc EXCEPT ![p] = "next"]
  /\ seenMax' = IF p = "live" THEN [seenMax EXCEPT ![sess[p].post_id] = -1]
                ELSE seenMax
  /\ clock' = clock + 1
  /\ lastOp' = Op("mark_notified", p, sess[p].post_id, 0)
  /\ UNCHANGED <<configVars, tableVars, kind, forumsLeft, queue>>
  /\ UNCHANGED <<delivered, retryDue>>
  /\ UNCHANGED <<gateVars, scoringVars, restVars>>

\* session.commit() raised (the database is locked, the disk is full): the
\* transaction is rolled back. The live cycle catches it per post; in a scan it
\* leaves the loop over the forum's posts.
MarkNotifiedFail(p) ==
  /\ pc[p] = "commit"
  /\ sess' = [sess EXCEPT ![p] = NoSess]
  /\ cur' = [cur EXCEPT ![p] = NoCur]
  /\ pc' = [pc EXCEPT ![p] = "next"]
  /\ queue' = [queue EXCEPT ![p] = IF p = "live" THEN @ ELSE <<>>]
  /\ lastOp' = Op("commit_fail", p, sess[p].post_id, 0)
  /\ UNCHANGED <<ledgerVars, configVars, tableVars, kind, forumsLeft>>
  /\ UNCHANGED <<delivered, mnDone, seenMax, retryDue>>
  /\ UNCHANGED <<gateVars, scoringVars, restVars>>

\* session.commit() of mark_notified raised IntegrityError: the session found no
\* row and adds one, and another session has committed a row of that post_id
\* in between (UNIQUE constraint failed: seen_posts.post_id). The transaction
\* is rolled back, row and log entry alike, and the exception leaves the loop
\* over the forum's posts.
MarkNotifiedConflict(p) ==
  /\ pc[p] = "commit"
  /\ ~sess[p].existing
  /\ ledger[LedgerOf(p)].seen[sess[p].post_id] # NoRow
  /\ sess' = [sess EXCEPT ![p] = NoSess]
  /\ cur' = [cur EXCEPT ![p] = NoCur]
  /\ pc' = [pc EXCEPT ![p] = "next"]
  /\ queue' = [queue EXCEPT ![p] = IF p = "live" THEN @ ELSE <<>>]
  /\ lastOp' = Op("integrity_error", p, sess[p].post_id, 0)
  /\ UNCHANGED <<ledgerVars, configVars, tableVars, kind, forumsLeft>>
  /\ UNCHANGED <<delivered, mnDone, seenMax, retryDue>>
  /\ UNCHANGED <<gateVars, scoringVars, restVars>>

\* ------------------------------- two sessions on the seen_posts table
TableFrame ==
  UNCHANGED <<ledgerVars, configVars, procVars, histVars, gateVars, scoringVars,
              restVars>>

\* A thread calls mark_seen: with self._get_session() as session, the query and
\* the change of the session, up to session.commit().
TxMarkSeen(s, post_id, score) ==
  /\ tx[s].pc # "open"
  /\ tx' = [tx EXCEPT ![s] = mark_seen_tx(table, post_id, score)]
  /\ UNCHANGED table
  /\ TableFrame

\* A thread calls mark_notified, up to session.commit().
TxMarkNotified(s, post_id, score) ==
  /\ tx[s].pc # "open"
  /\ tx' = [tx EXCEPT ![s] = mark_notified_tx(table, post_id, score, 1)]
  /\ UNCHANGED table
  /\ TableFrame

\* session.commit() of either call: it writes, or raises IntegrityError and
\* the session is closed without a write.
TxCommit(s) ==
  /\ tx[s].pc = "open"
  /\ LET r == commit(table, tx[s])
     IN /\ table' = r.rows
        /\ tx' = [tx EXCEPT ![s] = [pc |-> "done", op |-> tx[s].op,
                                    post_id |-> tx[s].row.post_id,
                                    error |-> r.error]]
  /\ TableFrame

\* The thread of the session is lost before the commit.
TxLost(s) ==
  /\ tx[s].pc = "open"
  /\ tx' = [tx EXCEPT ![s] = IdleTx]
  /\ UNCHANGED table
  /\ TableFrame

\* The process dies and is started again: every thread and every open session
\* is lost, the database files stay.
ProcessLost ==
  /\ pc' = [p \in Procs |-> "idle"]
  /\ forumsLeft' = [p \in Procs |-> <<>>]
  /\ queue' = [p \in Procs |-> <<>>]
  /\ cur' = [p \in Procs |-> NoCur]
  /\ sess' = [p \in Procs |-> NoSess]
  /\ lastOp' = IF \E p \in Procs : sess[p] # NoSess
               THEN Op("crash_in_mark_notified", "live", 0, 0)
               ELSE Op("crash", "live", 0, 0)
  /\ it' = IdleIter
  /\ addError' = "none"
  /\ UNCHANGED <<ledgerVars, configVars, tableVars, kind>>
  /\ UNCHANGED <<delivered, mnDone, seenMax, retryDue>>
  /\ UNCHANGED <<gateVars, item, result, memo>>
  /\ UNCHANGED <<keywordsCfg, kwRows, disabled, forumRows, views>>

\* The process is started again in continuous mode: load_config, the forums
\* list, the analyzer from config.keywords and the rows of list_keywords().
Crash ==
  /\ ProcessLost
  /\ LET a == start_continuous(keywordsCfg, kwRows)
     IN compiled' = a.compiled /\ dictKeys' = a.keys
  /\ cfgForums' = ConfigForums
  /\ forums' = enabled_forums(ConfigForums)
  /\ shutdown' = "unset"
  /\ adminOp' = [op |-> "start_continuous"]

\* The process is started in one-shot mode (run_once): the analyzer from
\* config.keywords alone.
StartOnce ==
  /\ ProcessLost
  /\ LET a == start_once(keywordsCfg, kwRows)
     IN compiled' = a.compiled /\ dictKeys' = a.keys
  /\ cfgForums' = ConfigForums
  /\ forums' = enabled_forums(ConfigForums)
  /\ shutdown' = "unset"
  /\ adminOp' = [op |-> "start_once"]

\* ------------------------------------------------------- the fetch gate
Min(a, b) == IF a <= b THEN a ELSE b

\* wait = 2**attempt * 5
backoff(attempt) == 2 ^ attempt * BASE_DELAY

\* Variant: the loop runs once more than max_retries.
range_exhausted_off_by_one(attempt) == attempt >= MAX_RETRIES

\* for attempt in range(self.max_retries): no further value after this one.
range_exhausted(attempt) == attempt + 1 >= MAX_RETRIES

\* Variant: the last network error is slept on like the others, and the loop
\* ends in its own RuntimeError.
on_response_no_reraise(attempt, st, retry_after) ==
  IF st = 200 THEN [do |-> "return", wait |-> 0, error |-> "none"]
  ELSE IF st = 429 THEN [do |-> "sleep", wait |-> retry_after, error |-> "none"]
  ELSE IF st >= 500 THEN [do |-> "sleep", wait |-> backoff(attempt), error |-> "none"]
  ELSE [do |-> "sleep", wait |-> backoff(attempt), error |-> "none"]

\* The body of the try of one attempt, for the status received (NetError: the
\* request raised aiohttp.ClientError or asyncio.TimeoutError). A status that is
\* none of 200, 429 and 5xx raises aiohttp.ClientResponseError inside the try,
\* which the except clause of the same try catches as a ClientError.
on_response(attempt, st, retry_after) ==
  IF st = 200 THEN [do |-> "return", wait |-> 0, error |-> "none"]
  ELSE IF st = 429 THEN [do |-> "sleep", wait |-> retry_after, error |-> "none"]
  ELSE IF st >= 500 THEN [do |-> "sleep", wait |-> backoff(attempt), error |-> "none"]
  ELSE IF attempt = MAX_RETRIES - 1
       THEN [do |-> "raise", wait |-> 0,
             error |-> IF st = NetError THEN "network_error"
                       ELSE "client_response_error"]
       ELSE [do |-> "sleep", wait |-> backoff(attempt), error |-> "none"]

\* History: what the responses of the call so far have been, "5xx" for 5xx
\* responses alone (or none yet), "transient" for 5xx responses and network
\* errors, "other" as soon as any other status came.
kinds_after(kinds, st) ==
  IF st # NetError /\ st < 500 THEN "other"
  ELSE IF st = NetError /\ kinds = "5xx" THEN "transient"
  ELSE kinds

Sleeping(c) == call[c].pc \in {"pace", "backoff"}
NoWaiters == \A c \in Callers : call[c].pc # "wait"

\* await http.get(url): session = await self._get_session(), then the loop.
GetStart(c) ==
  /\ call[c].pc = "idle"
  /\ call' = [call EXCEPT ![c] = [IdleCall EXCEPT !.pc = "acquire"]]
  /\ UNCHANGED <<gate, sinceDispatch, pipelineVars, scoringVars, restVars>>

\* async with self._lock, first half: asyncio.Lock.acquire finds the lock free.
\* The lock is not thread-safe: between this test and the claim of the lock a
\* caller on another thread may run.
LockTest(c) ==
  /\ call[c].pc = "acquire"
  /\ ~gate.locked
  /\ NoWaiters
  /\ call' = [call EXCEPT ![c].pc = "claim"]
  /\ UNCHANGED <<gate, sinceDispatch, pipelineVars, scoringVars, restVars>>

\* async with self._lock, second half: self._locked = True.
LockClaim(c) ==
  /\ call[c].pc = "claim"
  /\ gate' = [gate EXCEPT !.locked = TRUE]
  /\ call' = [call EXCEPT ![c].pc = "timing"]
  /\ UNCHANGED <<sinceDispatch, pipelineVars, scoringVars, restVars>>

\* The lock is held: the caller waits on a future of its event loop, which binds
\* the lock to that loop.
LockWait(c) ==
  /\ call[c].pc = "acquire"
  /\ gate.locked \/ ~NoWaiters
  /\ gate.loop \in {"none", c}
  /\ gate' = [gate EXCEPT !.loop = c]
  /\ call' = [call EXCEPT ![c].pc = "wait"]
  /\ UNCHANGED <<sinceDispatch, pipelineVars, scoringVars, restVars>>

\* The lock is held and bound to the event loop of another thread: acquire
\* raises RuntimeError, which leaves get.
LockLoopError(c) ==
  /\ call[c].pc = "acquire"
  /\ gate.locked \/ ~NoWaiters
  /\ gate.loop \notin {"none", c}
  /\ call' = [call EXCEPT ![c].pc = "done", ![c].outcome = "lock_loop_error"]
  /\ UNCHANGED <<gate, sinceDispatch, pipelineVars, scoringVars, restVars>>

\* The holder released the lock and the waiter is woken: it takes the lock.
LockWake(c) ==
  /\ call[c].pc = "wait"
  /\ ~gate.locked
  /\ gate' = [gate EXCEPT !.locked = TRUE]
  /\ call' = [call EXCEPT ![c].pc = "timing"]
  /\ UNCHANGED <<sinceDispatch, pipelineVars, scoringVars, restVars>>

\* _rate_limit: elapsed = now - self._last_request_time; if elapsed <
\* self.min_interval: await asyncio.sleep(self.min_interval - elapsed)
RateCheck(c) ==
  /\ call[c].pc = "timing"
  /\ call' = [call EXCEPT ![c].pc = "pace",
                          ![c].remaining = Max(0, MIN_INTERVAL - gate.elapsed)]
  /\ UNCHANGED <<gate, sinceDispatch, pipelineVars, scoringVars, restVars>>

\* self._last_request_time = now, the lock is released and session.get starts
\* the request.
Dispatch(c) ==
  /\ call[c].pc = "pace"
  /\ call[c].remaining = 0
  /\ gate' = [gate EXCEPT !.locked = FALSE, !.elapsed = 0]
  /\ sinceDispatch' = 0
  /\ call' = [call EXCEPT ![c].pc = "request", ![c].nreq = @ + 1]
  /\ UNCHANGED <<pipelineVars, scoringVars, restVars>>

\* The request is answered, or raises.
Respond(c) ==
  /\ call[c].pc = "request"
  /\ \E st \in Statuses \cup {NetError},
        retry_after \in RetryAfterHeaders \cup {RETRY_AFTER_DEFAULT} :
       /\ st # 429 => retry_after = RETRY_AFTER_DEFAULT
       /\ LET o == on_response(call[c].attempt, st, retry_after)
          IN call' = [call EXCEPT
                 ![c].lastResp = st,
                 ![c].kinds = kinds_after(@, st),
                 ![c].pc = IF o.do = "sleep" THEN "backoff" ELSE "done",
                 ![c].remaining = o.wait,
                 ![c].wait = o.wait,
                 ![c].outcome = IF o.do = "return" THEN "ok"
                                ELSE IF o.do = "raise" THEN o.error
                                ELSE "none"]
  /\ UNCHANGED <<gate, sinceDispatch, pipelineVars, scoringVars, restVars>>

\* Variant: "continue" after a 429 response goes on with the same value of
\* attempt.
BackoffWake_rate_limit_free(c) ==
  /\ call[c].pc = "backoff"
  /\ call[c].remaining = 0
  /\ call' = IF call[c].lastResp = 429
             THEN [call EXCEPT ![c].pc = "acquire", ![c].wait = 0]
             ELSE IF range_exhausted(call[c].attempt)
             THEN [call EXCEPT ![c].pc = "done",
                               ![c].outcome = "max_retries_exceeded"]
             ELSE [call EXCEPT ![c].pc = "acquire", ![c].attempt = @ + 1,
                               ![c].wait = 0]
  /\ UNCHANGED <<gate, sinceDispatch, pipelineVars, scoringVars, restVars>>

\* The sleep after a response is over: continue with the next value of
\* attempt, or leave the loop for raise RuntimeError("Max retries ...").
BackoffWake(c) ==
  /\ call[c].pc = "backoff"
  /\ call[c].remaining = 0
  /\ call' = IF range_exhausted(call[c].attempt)
             THEN [call EXCEPT ![c].pc = "done",
                               ![c].outcome = "max_retries_exceeded"]
             ELSE [call EXCEPT ![c].pc = "acquire", ![c].attempt = @ + 1,
                               ![c].wait = 0]
  /\ UNCHANGED <<gate, sinceDispatch, pipelineVars, scoringVars, restVars>>

\* get has returned or raised; the caller may call again.
GetEnd(c) ==
  /\ call[c].pc = "done"
  /\ call' = [call EXCEPT ![c] = IdleCall]
  /\ UNCHANGED <<gate, sinceDispatch, pipelineVars, scoringVars, restVars>>

\* Time passes: by one second, or up to the end of a sleep. Times past
\* MIN_INTERVAL are all alike to _rate_limit.
TimeSteps ==
  {d \in 1..RETRY_AFTER_DEFAULT :
     \/ d = 1 /\ \A c \in Callers : Sleeping(c) => call[c].remaining <= MIN_INTERVAL
     \/ \E c \in Callers : Sleeping(c) /\ call[c].remaining = d}

Advance ==
  /\ \E d \in TimeSteps :
       /\ call' = [c \in Callers |->
                     IF Sleeping(c)
                     THEN [call[c] EXCEPT !.remaining = Max(0, @ - d)]
                     ELSE call[c]]
       /\ gate' = [gate EXCEPT !.elapsed = Min(MIN_INTERVAL, @ + d)]
       /\ sinceDispatch' = Min(MIN_INTERVAL, sinceDispatch + d)
  /\ UNCHANGED <<pipelineVars, scoringVars, restVars>>

\* One call after another on the monitoring loop's thread.
GetStep(c) ==
  \/ GetStart(c)
  \/ LockTest(c)
  \/ LockClaim(c)
  \/ RateCheck(c)
  \/ Dispatch(c)
  \/ Respond(c)
  \/ BackoffWake(c)
  \/ GetEnd(c)

NextFetch ==
  \/ GetStep("live")
  \/ Advance

\* The monitoring loop and a scan thread on the one client.
NextGate ==
  \/ \E c \in Callers : GetStep(c)
  \/ \E c \in Callers : LockWait(c)
  \/ \E c \in Callers : LockLoopError(c)
  \/ \E c \in Callers : LockWake(c)
  \/ Advance

\* ---------------------------------------------------------- the analyzer
\* add_keyword(group, pattern) with a pattern that compiles.
AddKeyword(g, p) ==
  /\ PatternCount(DictList, compiled) < MaxPatterns
  /\ room(it)
  /\ LET r == add_keyword(dictKeys, compiled, g, p)
     IN /\ compiled' = r.compiled
        /\ dictKeys' = r.keys
        /\ addError' = r.error
        /\ it' = IF compiles(p) THEN observe(it, r.compiled, g, FALSE) ELSE it
  /\ adminOp' = [op |-> IF compiles(p) THEN "analyzer_call" ELSE "add_invalid"]
  /\ UNCHANGED <<item, result, memo, pipelineVars, gateVars>>
  /\ UNCHANGED <<keywordsCfg, shutdown>>
  /\ UNCHANGED <<kwRows, disabled, forumRows, cfgForums, forums, views>>

\* remove_keyword(group, pattern): every pattern of the group with that text.
RemoveKeyword(g, p) ==
  /\ room(it)
  /\ compiled' = remove_keyword(dictKeys, compiled, g, p)
  /\ it' = IF InSeq(g, dictKeys)
           THEN observe(it, remove_keyword(dictKeys, compiled, g, p), g, TRUE)
           ELSE it
  /\ adminOp' = [op |-> "analyzer_call"]
  /\ UNCHANGED <<item, result, memo, pipelineVars, gateVars>>
  /\ UNCHANGED <<keywordsCfg, dictKeys, addError, shutdown>>
  /\ UNCHANGED <<kwRows, disabled, forumRows, cfgForums, forums, views>>

\* result = analyzer.analyze(post)
Analyze ==
  /\ item # NoItem
  /\ LET r == analyze(content(item, compiled), threshold)
         call_result == [compiled |-> compiled, score |-> r.score,
                         triggered |-> r.triggered]
     IN /\ result' = call_result
        /\ memo' \in {memo, result}
  /\ UNCHANGED <<compiled, item, pipelineVars, gateVars, restVars>>

\* ------------------------------------------------ Slack: keyword management
\* What every keyword submission leaves alone.
KeywordFrame ==
  /\ UNCHANGED <<item, result, memo, pipelineVars, gateVars>>
  /\ UNCHANGED <<keywordsCfg, it, shutdown, forumRows, cfgForums, forums>>

\* The "Remove Keyword" button: the modal is opened with the options of the
\* moment, and one of them is selected.
OpenRemoveModal(o) ==
  /\ o \in remove_options(kwRows, dictKeys, compiled)
  /\ views' = [views EXCEPT !.remove = o]
  /\ KeywordFrame
  /\ UNCHANGED <<compiled, dictKeys, addError, kwRows, disabled, adminOp>>

\* The "Re-enable Keywords" button: the modal lists the disabled keywords, and
\* one of them is selected.
OpenEnableModal(key) ==
  /\ key \in list_disabled_items(disabled, "keyword")
  /\ views' = [views EXCEPT !.enable = key]
  /\ KeywordFrame
  /\ UNCHANGED <<compiled, dictKeys, addError, kwRows, disabled, adminOp>>

\* handle_add_submission without a backfill: a text that does not compile is
\* answered with an error; otherwise the row is written and the pattern added.
AddSubmission(g, p) ==
  /\ PatternCount(DictList, compiled) < MaxPatterns
  /\ next_id(kwRows) <= MaxRows
  /\ IF ~compiles(p)
     THEN /\ adminOp' = [op |-> "add_rejected"]
          /\ UNCHANGED <<compiled, dictKeys, addError, kwRows>>
     ELSE /\ kwRows' = add_user_keyword(kwRows, g, p)
          /\ LET r == add_keyword(dictKeys, compiled, g, p)
             IN /\ compiled' = r.compiled
                /\ dictKeys' = r.keys
                /\ addError' = r.error
          /\ adminOp' = [op |-> "add", key |-> <<g, p>>]
  /\ KeywordFrame
  /\ UNCHANGED <<disabled, views>>

\* handle_remove_submission, one selected option: a "db:" option deletes the
\* row of its id and removes the pattern of its text; a "cfg:" option records
\* the keyword as disabled and removes the pattern.  The modal may be open in
\* more than one client, so a submission does not end the others.
RemoveSubmission(o) ==
  /\ o = views.remove
  /\ IF o.src = "db"
     THEN /\ kwRows' = remove_user_keyword(kwRows, o.id)
          /\ adminOp' = [op |-> "delete", key |-> <<o.group, o.text>>,
                         rows |-> {r \in list_keywords(kwRows) : r.id = o.id}]
          /\ UNCHANGED disabled
     ELSE /\ disabled' = disable_item(disabled, "keyword", <<o.group, o.text>>)
          /\ adminOp' = [op |-> "disable", key |-> <<o.group, o.text>>]
          /\ UNCHANGED kwRows
  /\ compiled' = remove_keyword(dictKeys, compiled, o.group, o.text)
  /\ KeywordFrame
  /\ UNCHANGED <<dictKeys, addError, views>>

\* handle_enable_keyword_submission, one selected option: the record is
\* removed and the pattern added.
EnableKeywordSubmission(key) ==
  /\ key = views.enable
  /\ PatternCount(DictList, compiled) < MaxPatterns
  /\ disabled' = enable_item(disabled, "keyword", key)
  /\ LET r == add_keyword(dictKeys, compiled, key[1], key[2])
     IN /\ compiled' = r.compiled
        /\ dictKeys' = r.keys
        /\ addError' = r.error
  /\ adminOp' = [op |-> "enable", key |-> key]
  /\ KeywordFrame
  /\ UNCHANGED <<kwRows, views>>

\* The (group, text) pairs the add modal is submitted with.
AddArgs ==
  {<<"governance", "treasury">>, <<"security", "council">>, <<"governance", "(">>}

\* The options a modal can hold.
RemoveOptions ==
  [src : {"db"}, id : 1..MaxRows, group : DictGroups, text : Patterns]
  \cup [src : {"cfg"}, id : {0}, group : DictGroups, text : Patterns]

NextAdmin ==
  \/ \E o \in RemoveOptions : OpenRemoveModal(o)
  \/ \E key \in DictGroups \X Patterns : OpenEnableModal(key)
  \/ \E a \in AddArgs : AddSubmission(a[1], a[2])
  \/ \E o \in RemoveOptions : RemoveSubmission(o)
  \/ \E key \in DictGroups \X Patterns : EnableKeywordSubmission(key)
  \/ Crash
  \/ StartOnce

\* -------------------------------------------------- Slack: forum management
\* What every forum submission leaves alone: the forums list of the running
\* loop among the rest.
ForumFrame ==
  /\ UNCHANGED <<pipelineVars, gateVars, scoringVars, analyzerVars>>
  /\ UNCHANGED <<kwRows, forums, views, shutdown>>

\* handle_add_forum_submission: the row is written and a ForumConfig appended
\* to config.forums.
AddForumSubmission(name) ==
  /\ next_id(forumRows) <= MaxRows
  /\ forumRows' = Append(forumRows, [id |-> next_id(forumRows), name |-> name])
  /\ cfgForums' = Append(cfgForums, [name |-> name, enabled |-> TRUE])
  /\ adminOp' = [op |-> "forum_add"]
  /\ UNCHANGED disabled
  /\ ForumFrame

\* handle_remove_forum_submission, a "db:id:name" option of the modal: the row
\* is deleted and the entries of that name leave config.forums.
DeleteForumSubmission(k) ==
  /\ k \in 1..Len(forumRows)
  /\ forumRows' = SelectSeq(forumRows, LAMBDA r : r.id # forumRows[k].id)
  /\ cfgForums' = SelectSeq(cfgForums, LAMBDA f : f.name # forumRows[k].name)
  /\ adminOp' = [op |-> "forum_delete"]
  /\ UNCHANGED disabled
  /\ ForumFrame

\* handle_remove_forum_submission, a "cfg:name" option (an enabled entry of
\* config.forums whose name no row has): the forum is recorded as disabled and
\* its entries are switched off.
DisableForumSubmission(name) ==
  /\ \E k \in 1..Len(cfgForums) : cfgForums[k].name = name /\ cfgForums[k].enabled
  /\ \A k \in 1..Len(forumRows) : forumRows[k].name # name
  /\ disabled' = disable_item(disabled, "forum", name)
  /\ cfgForums' = [k \in 1..Len(cfgForums) |->
                     IF cfgForums[k].name = name
                     THEN [cfgForums[k] EXCEPT !.enabled = FALSE]
                     ELSE cfgForums[k]]
  /\ adminOp' = [op |-> "forum_disable"]
  /\ UNCHANGED forumRows
  /\ ForumFrame

\* handle_enable_forum_submission, an option of the re-enable modal: the record
\* is removed and the entries of that name are switched on.
EnableForumSubmission(name) ==
  /\ name \in list_disabled_items(disabled, "forum")
  /\ disabled' = enable_item(disabled, "forum", name)
  /\ cfgForums' = [k \in 1..Len(cfgForums) |->
                     IF cfgForums[k].name = name
                     THEN [cfgForums[k] EXCEPT !.enabled = TRUE]
                     ELSE cfgForums[k]]
  /\ adminOp' = [op |-> "forum_enable"]
  /\ UNCHANGED forumRows
  /\ ForumFrame

\* --------------------------------- analyze, step by step, beside the bot
\* What an analyze step leaves alone.
IterFrame ==
  /\ UNCHANGED <<compiled, item, memo, pipelineVars, gateVars>>
  /\ UNCHANGED <<keywordsCfg, dictKeys, addError, adminVars, shutdown>>

\* score = 0.0, matches = [], and the iterator of self._compiled.items().
IterStart ==
  /\ item # NoItem
  /\ it.pc = "idle"
  /\ it' = [pc |-> "groups", size |-> Len(dictKeys), gi |-> 0, g |-> "",
            list |-> <<>>, live |-> FALSE, k |-> 0, tm |-> 0, bm |-> 0,
            sets |-> {compiled}]
  /\ UNCHANGED result
  /\ IterFrame

\* The outer loop asks for the next item: RuntimeError when the dict has
\* another size than at the start, else the next group and its list, or the
\* end of the loop.
IterNextGroup ==
  /\ it.pc = "groups"
  /\ IF Len(dictKeys) # it.size
     THEN it' = [it EXCEPT !.pc = "error"]
     ELSE IF it.gi < Len(dictKeys)
          THEN it' = [it EXCEPT !.pc = "patterns", !.gi = @ + 1,
                                !.g = dictKeys[it.gi + 1],
                                !.list = compiled[dictKeys[it.gi + 1]],
                                !.live = TRUE, !.k = 0]
          ELSE it' = [it EXCEPT !.pc = "finish"]
  /\ UNCHANGED result
  /\ IterFrame

\* The inner loop: the next pattern of the list is searched in the title and
\* in the body, or the list is at its end.
IterNextPattern ==
  /\ it.pc = "patterns"
  /\ IF it.k < Len(it.list)
     THEN it' = [it EXCEPT
                   !.k = @ + 1,
                   !.tm = @ + (IF search(it.list[it.k + 1], item.title) THEN 1 ELSE 0),
                   !.bm = @ + (IF search(it.list[it.k + 1], item.body) THEN 1 ELSE 0)]
     ELSE it' = [it EXCEPT !.pc = "groups"]
  /\ UNCHANGED result
  /\ IterFrame

\* The category bonus, the threshold test and the return.
IterFinish ==
  /\ it.pc = "finish"
  /\ LET r == analyze([tm |-> it.tm, bm |-> it.bm,
                       pri |-> lower(item.category) \in PRIORITY_CATEGORIES],
                      threshold)
     IN result' = [compiled |-> compiled, score |-> r.score,
                   triggered |-> r.triggered]
  /\ it' = [it EXCEPT !.pc = "done"]
  /\ IterFrame

NextRace ==
  \/ IterStart
  \/ IterNextGroup
  \/ IterNextPattern
  \/ IterFinish
  \/ \E a \in {c \in KeywordCalls : compiles(c[2])} : AddKeyword(a[1], a[2])
  \/ \E a \in {c \in KeywordCalls : compiles(c[2])} : RemoveKeyword(a[1], a[2])

NextAnalyze ==
  \/ \E a \in KeywordArgs : AddKeyword(a[1], a[2])
  \/ \E a \in KeywordArgs : RemoveKeyword(a[1], a[2])
  \/ Analyze

\* The analyzer's pattern lists under add_keyword and remove_keyword calls of
\* every kind.
NextKeywords ==
  \/ \E a \in KeywordCalls : AddKeyword(a[1], a[2])
  \/ \E a \in KeywordCalls : RemoveKeyword(a[1], a[2])
  \/ StartOnce

\* The live process alone: the monitoring loop and its ledger.
NextLive ==
  \/ CycleStart
  \/ FetchForum("live")
  \/ FetchFail("live")
  \/ CycleEnd("live")
  \/ ForumDone("live")
  \/ AnalyzePost("live")
  \/ MarkSeen("live")
  \/ MarkSeenFail("live")
  \/ SendError("live")
  \/ ShouldNotify("live")
  \/ SendOk("live")
  \/ SendFail("live")
  \/ MarkNotifiedBegin("live")
  \/ MarkNotifiedCommit("live")
  \/ MarkNotifiedFail("live")
  \/ Crash

\* The monitoring loop with every failure a cycle can meet: of a fetch, of a
\* delivery, of the error report and of each of the four ledger calls.
NextFailures ==
  \/ CycleStart
  \/ FetchForum("live")
  \/ FetchFail("live")
  \/ CycleEnd("live")
  \/ GetStatsFail("live")
  \/ ForumDone("live")
  \/ AnalyzePost("live")
  \/ MarkSeen("live")
  \/ MarkSeenFail("live")
  \/ SendError("live")
  \/ ShouldNotify("live")
  \/ ShouldNotifyFail("live")
  \/ SendOk("live")
  \/ SendFail("live")
  \/ MarkNotifiedBegin("live")
  \/ MarkNotifiedCommit("live")
  \/ MarkNotifiedFail("live")
  \/ Crash

\* mark_seen and mark_notified calls of two threads on one database, each call
\* in two steps.
NextTable ==
  \/ \E s \in Sessions, i \in Posts, sc \in TxScores : TxMarkSeen(s, i, sc)
  \/ \E s \in Sessions, i \in Posts, sc \in TxScores : TxMarkNotified(s, i, sc)
  \/ \E s \in Sessions : TxCommit(s)
  \/ \E s \in Sessions : TxLost(s)

\* handle_signal on SIGINT or SIGTERM: shutdown.set(), at any moment.
Signal ==
  /\ shutdown = "unset"
  /\ shutdown' = "set"
  /\ UNCHANGED <<pipelineVars, gateVars, scoringVars, analyzerVars, adminVars>>

\* The event is set when the cycle has returned: wait_for returns, the while
\* test fails, the bot and the HTTP client are closed.
LoopEnd ==
  /\ pc["live"] = "idle"
  /\ shutdown = "set"
  /\ shutdown' = "stopped"
  /\ UNCHANGED <<pipelineVars, gateVars, scoringVars, analyzerVars, adminVars>>

\* The loop of run_continuous with a ledger that answers every call.
NextStop ==
  \/ CycleStart
  \/ FetchForum("live")
  \/ FetchFail("live")
  \/ CycleEnd("live")
  \/ ForumDone("live")
  \/ AnalyzePost("live")
  \/ MarkSeen("live")
  \/ ShouldNotify("live")
  \/ SendOk("live")
  \/ SendFail("live")
  \/ MarkNotifiedBegin("live")
  \/ MarkNotifiedCommit("live")
  \/ Signal
  \/ LoopEnd

\* The steps of a scan thread, whatever its kind.
ScanStep(p) ==
  \/ FetchForum(p)
  \/ FetchFail(p)
  \/ CycleEnd(p)
  \/ ForumDone(p)
  \/ ShouldNotify(p)
  \/ SendOk(p)
  \/ SendFail(p)
  \/ SkipSend(p)
  \/ MarkNotifiedBegin(p)
  \/ MarkNotifiedCommit(p)
  \/ MarkNotifiedConflict(p)
  \/ MarkNotifiedFail(p)

\* Full scans alone: two threads of _run_full_scan on full_scan.db.
NextScan ==
  \/ \E p \in Scans : ScanStart(p, "full")
  \/ \E p \in Scans : AnalyzePost(p)
  \/ \E p \in Scans : ScanStep(p)
  \/ Crash

\* Backfill scans alone: two threads of _run_backfill_scan on backfill_scan.db.
NextBackfill ==
  \/ \E p \in Scans : ScanStart(p, "backfill")
  \/ \E p \in Scans : BackfillMatch(p)
  \/ \E p \in Scans : ScanStep(p)
  \/ Crash

\* One scan thread of either kind, started from the bot, with forums, a
\* webhook and a ledger that answer.
NextIsolated ==
  \/ \E k \in {"full", "backfill"} : ScanStart("scan1", k)
  \/ AnalyzePost("scan1")
  \/ BackfillMatch("scan1")
  \/ FetchForum("scan1")
  \/ CycleEnd("scan1")
  \/ ForumDone("scan1")
  \/ ShouldNotify("scan1")
  \/ SendOk("scan1")
  \/ SkipSend("scan1")
  \/ MarkNotifiedBegin("scan1")
  \/ MarkNotifiedCommit("scan1")

\* The monitoring loop beside the forum views of the bot, restarts included.
NextSources ==
  \/ CycleStart
  \/ FetchForum("live")
  \/ FetchFail("live")
  \/ CycleEnd("live")
  \/ ForumDone("live")
  \/ AnalyzePost("live")
  \/ MarkSeen("live")
  \/ ShouldNotify("live")
  \/ SendOk("live")
  \/ MarkNotifiedBegin("live")
  \/ MarkNotifiedCommit("live")
  \/ AddForumSubmission(UserForum)
  \/ \E k \in 1..MaxRows : DeleteForumSubmission(k)
  \/ \E name \in {1, 2, UserForum} : DisableForumSubmission(name)
  \/ \E name \in {1, 2, UserForum} : EnableForumSubmission(name)
  \/ Crash

Next ==
  \/ NextLive \/ NextScan \/ NextBackfill \/ NextFetch \/ NextGate
  \/ NextAnalyze \/ NextKeywords \/ NextAdmin \/ NextRace \/ NextSources
  \/ NextIsolated \/ NextFailures \/ NextTable

Spec == Init /\ [][Next]_vars

\* The live loop and the scans share no ledger (dao_monitor.db, full_scan.db,
\* backfill_scan.db), so each is also checked on its own.
SpecLive == Init /\ [][NextLive]_vars
SpecScan == Init /\ [][NextScan]_vars
SpecBackfill == Init /\ [][NextBackfill]_vars

\* The fetch gate and the analyzer share no state with the ledger either.
SpecFetch == InitFetch /\ [][NextFetch]_vars
SpecGate == InitFetch /\ [][NextGate]_vars
\* One caller on an event loop that keeps running it: a sleep ends when its
\* time has passed and a request is answered or times out.
SpecFetchFair == InitFetch /\ [][NextFetch]_vars /\ WF_vars(NextFetch)
SpecAnalyze == InitAnalyze /\ [][NextAnalyze]_vars
SpecKeywords == InitKeywords /\ [][NextKeywords]_vars
SpecAdmin == InitFetch /\ [][NextAdmin]_vars
\* run_continuous from its start to its return, with the signals it handles;
\* the event loop keeps running the cycle it has begun.
SpecStop == InitFetch /\ [][NextStop]_vars /\ WF_vars(NextStop)
SpecSources == InitFetch /\ [][NextSources]_vars
SpecFailures == Init /\ [][NextFailures]_vars
SpecTable == InitFetch /\ [][NextTable]_vars
\* A scan beside a monitoring loop that has a history in its ledger.
SpecIsolated == InitIsolated /\ [][NextIsolated]_vars
\* One post whose title holds every built-in pattern, under analysis while
\* the pattern set is changed.
InitRace ==
  /\ InitAnalyze
  /\ item.title = Patterns
  /\ item.body = {}

\* analyze on the event loop while the bot's thread changes the patterns.
SpecRace == InitRace /\ [][NextRace]_vars

\* ================================================================ claims

\* C1: across any sequence of monitoring cycles on one ledger, with crashes
\* inside a cycle and delivery or ledger-write failures, the alert of a post
\* is delivered successfully at most once.
C1_DeliveredAtMostOnce ==
  \A i \in Posts : delivered["live"][i] <= 1

\* C2: two cycles that share a ledger and process the same triggered post
\* concurrently never both deliver its alert: should_notify followed by
\* mark_notified is one atomic claim.
C2_OneClaimant ==
  ~ \E p \in Procs, q \in Procs :
      /\ p # q
      /\ webhook
      /\ pc[p] \in {"mark", "commit"}
      /\ pc[q] \in {"mark", "commit"}
      /\ LedgerOf(p) = LedgerOf(q)
      /\ cur[p].id = cur[q].id

\* C3: once mark_notified has completed for a post, should_notify is false for
\* it in every later state, whatever ledger operations and restarts follow.
C3_NotifiedStaysNotified ==
  \A i \in Posts :
    mnDone["live"][i] =>
      \A s \in ScoreValues : ~should_notify(ledger["live"], i, s)

C3_Witness ==
  \E i \in Posts :
    /\ mnDone["live"][i]
    /\ seenMax[i] = -1
    /\ lastOp.op = "mark_seen"
    /\ lastOp.id = i

C5_RowAndLogTogether ==
  \A i \in Posts :
    /\ (NotifiedAt(ledger["live"], i) # Null) <=> (LogCount(ledger["live"], i) > 0)
    /\ mnDone["live"][i] <=> (LogCount(ledger["live"], i) > 0)

C5_Witness ==
  /\ lastOp.op = "crash_in_mark_notified"
  /\ \E i \in Posts : delivered["live"][i] > 0 /\ ~mnDone["live"][i]
  /\ \E j \in Posts : mnDone["live"][j]

\* C6: a failed delivery writes nothing to the ledger for the post: notified_at
\* stays null, no log entry is appended, should_notify stays true, and the next
\* time the live cycle checks the post it goes on to deliver.
C6_FailedDeliveryRetried ==
  /\ [](\A i \in Posts : retryDue[i] =>
          /\ NotifiedAt(ledger["live"], i) = Null
          /\ LogCount(ledger["live"], i) = 0
          /\ \A s \in ScoreValues : should_notify(ledger["live"], i, s))
  /\ [][(/\ pc["live"] = "check"
         /\ retryDue[cur["live"].id]
         /\ pc'["live"] # "idle") => pc'["live"] = "send"]_vars
  /\ [][(lastOp'.op = "send_fail" /\ lastOp'.p = "live") => ledger' = ledger]_vars

C6_Witness ==
  \E i \in Posts :
    /\ retryDue[i]
    /\ pc["live"] = "send"
    /\ cur["live"].id = i

\* C7: notified_at of a row changes at most once, from null to a timestamp; no
\* later ledger operation, a further mark_notified included, changes it.
C7_NotifiedAtImmutable ==
  [][\A l \in Ledgers, i \in Posts :
       NotifiedAt(ledger[l], i) # Null =>
         NotifiedAt(ledger'[l], i) = NotifiedAt(ledger[l], i)]_vars

\* C8: every notification_log entry stands for a successful delivery: the log
\* entries of a post never outnumber its successful deliveries.
C8_LogWithinDeliveries ==
  \A l \in Ledgers, i \in Posts : LogCount(ledger[l], i) <= delivered[l][i]

\* C9: mark_seen is monotonic and idempotent: after mark_seen calls alone the
\* stored score is the largest score passed, and a repeated call with the same
\* arguments leaves the ledger as it is.
C9_MarkSeenMaxIdempotent ==
  /\ \A i \in Posts : seenMax[i] >= 0 =>
       /\ ledger["live"].seen[i] # NoRow
       /\ ledger["live"].seen[i].detection_score = seenMax[i]
  /\ pc["live"] = "seen" =>
       \A i \in Posts, s \in ScoreValues :
         LET once == mark_seen(ledger["live"], i, s)
         IN mark_seen(once, i, s) = once

C9_Witness ==
  /\ lastOp.op = "mark_seen"
  /\ lastOp.score < seenMax[lastOp.id]
  /\ ledger["live"].seen[lastOp.id].detection_score = seenMax[lastOp.id]

\* C10: mark_seen leaves notified_at, the answer of should_notify and the
\* notification log as they were, for a post with a row or without one.
C10_MarkSeenFrame ==
  /\ pc["live"] = "seen" =>
       \A i \in Posts, s \in ScoreValues :
         LET after == mark_seen(ledger["live"], i, s)
         IN /\ NotifiedAt(after, i) = NotifiedAt(ledger["live"], i)
            /\ should_notify(after, i, s) = should_notify(ledger["live"], i, s)
            /\ after.log = ledger["live"].log
  /\ (lastOp.op = "mark_seen" /\ mnDone["live"][lastOp.id]) =>
       NotifiedAt(ledger["live"], lastOp.id) # Null

C10_Witness ==
  /\ lastOp.op = "mark_seen"
  /\ NotifiedAt(ledger["live"], lastOp.id) # Null
  /\ \E j \in Posts : lastOp.id # j /\ ledger["live"].seen[j] = NoRow

\* C11: a failed delivery for one post does not end the live cycle: the posts
\* still queued for the forum and the forums still to come stay as they were,
\* the cycle goes on with the next post, and a post leaves the queue only by
\* being scored.
C11_DeliveryFailureIsolated ==
  /\ [][(lastOp'.op = "send_fail" /\ lastOp'.p = "live") =>
          /\ pc'["live"] = "next"
          /\ queue'["live"] = queue["live"]
          /\ forumsLeft'["live"] = forumsLeft["live"]]_vars
  /\ [][(queue["live"] # <<>> /\ queue'["live"] # queue["live"]) =>
          \/ lastOp'.op \in {"crash", "crash_in_mark_notified"}
          \/ /\ pc["live"] = "next"
             /\ queue'["live"] = Tail(queue["live"])
             /\ cur'["live"] # NoCur
             /\ cur'["live"].id = Head(queue["live"])
          \/ lastOp'.op = "mark_seen_fail"]_vars

C11_Witness ==
  /\ lastOp.op = "send_fail"
  /\ lastOp.p = "live"
  /\ queue["live"] # <<>>
  /\ forumsLeft["live"] # <<>>

\* C12: a failed fetch of one forum is reported with send_error, a failure of
\* that report is passed over, and the forums still to come are processed.
C12_FetchFailureReported ==
  /\ [][lastOp'.op = "fetch_fail" => pc'[lastOp'.p] = "error"]_vars
  /\ [][lastOp'.op = "fetch_fail" =>
          forumsLeft'[lastOp'.p] = Tail(forumsLeft[lastOp'.p])]_vars
  /\ [][lastOp'.op = "send_error_fail" =>
          /\ pc'[lastOp'.p] = "fetch"
          /\ forumsLeft' = forumsLeft]_vars

\* C13: any two outbound requests through the one client, whichever caller
\* issued them and retries included, start at least MIN_INTERVAL apart.
C13_MinimumInterval ==
  [][\A c \in Callers :
       call'[c].nreq = call[c].nreq + 1 => sinceDispatch >= MIN_INTERVAL]_vars

\* C14: a 429 response does not use up the retry budget: the sleep it causes
\* ends in a further attempt with the attempt number unchanged, and no call
\* ends on a 429 response.
C14_RateLimitedKeepsBudget ==
  /\ [](\A c \in Callers : ~(call[c].pc = "done" /\ call[c].lastResp = 429))
  /\ [][\A c \in Callers :
          (/\ call[c].pc = "backoff"
           /\ call[c].lastResp = 429
           /\ call'[c].pc # "backoff") =>
            /\ call'[c].pc = "acquire"
            /\ call'[c].attempt = call[c].attempt]_vars

\* C15: a 4xx response other than 429 ends the call at once with the client
\* error: one request, no sleep, no retry.
C15_ClientErrorFailsAtOnce ==
  \A c \in Callers :
    (call[c].lastResp \in 400..499 /\ call[c].lastResp # 429) =>
      /\ call[c].pc = "done"
      /\ call[c].outcome = "client_response_error"
      /\ call[c].nreq = 1
      /\ call[c].wait = 0

\* C16: when every response is 5xx the call makes exactly MAX_RETRIES requests,
\* sleeps BASE_DELAY * 2^attempt after the request of each attempt, and ends
\* with the error of exhausted retries.
C16_ServerErrorsExhaust ==
  \A c \in Callers :
    (call[c].kinds = "5xx" /\ call[c].lastResp # NoResp) =>
      /\ call[c].nreq <= MAX_RETRIES
      /\ call[c].pc = "backoff" =>
           /\ call[c].nreq = call[c].attempt + 1
           /\ call[c].wait = BASE_DELAY * 2 ^ call[c].attempt
      /\ call[c].pc = "done" =>
           /\ call[c].nreq = MAX_RETRIES
           /\ call[c].outcome = "max_retries_exceeded"

C16_Witness ==
  /\ call["live"].pc = "done"
  /\ call["live"].kinds = "5xx"
  /\ call["live"].nreq = MAX_RETRIES
  /\ call["live"].outcome = "max_retries_exceeded"

\* C17: network errors and 5xx responses draw on one budget and one backoff: a
\* call that meets nothing else makes MAX_RETRIES requests in all, sleeps
\* BASE_DELAY * 2^attempt after each but the last, and when the last attempt
\* ends in a network error that error is what the call raises.
C17_NetworkErrorsShareBudget ==
  \A c \in Callers :
    (call[c].kinds = "transient" /\ call[c].lastResp # NoResp) =>
      /\ call[c].nreq <= MAX_RETRIES
      /\ call[c].pc = "backoff" =>
           /\ call[c].nreq = call[c].attempt + 1
           /\ call[c].wait = BASE_DELAY * 2 ^ call[c].attempt
      /\ call[c].pc = "done" =>
           /\ call[c].nreq = MAX_RETRIES
           /\ call[c].lastResp = NetError => call[c].outcome = "network_error"
           /\ call[c].lastResp # NetError => call[c].outcome = "max_retries_exceeded"

C17_Witness ==
  /\ call["live"].pc = "done"
  /\ call["live"].kinds = "transient"
  /\ call["live"].lastResp = NetError
  /\ call["live"].nreq = MAX_RETRIES
  /\ call["live"].outcome = "network_error"

\* C18: any 2xx response ends the call at once with the parsed body: no sleep
\* and no further request.
C18_SuccessReturnsAtOnce ==
  \A c \in Callers :
    call[c].lastResp \in 200..299 =>
      /\ call[c].pc = "done"
      /\ call[c].outcome = "ok"

\* C19: the score is (2.0 for each active pattern matching the title + 1.0 for
\* each matching the body), times 1.5 once when the category is a priority
\* one, and triggered is score >= threshold; one title match scores 3.0 in a
\* priority category and 2.0 outside, one body match alone scores 1.0 and does
\* not trigger at 1.5.
C19_ScoreFormula ==
  result # NoResult =>
    LET comp == result.compiled
        slots == {gk \in DictGroups \X (1..MaxPatterns) : gk[2] <= Len(comp[gk[1]])}
        tm == Cardinality({gk \in slots : comp[gk[1]][gk[2]] \in item.title})
        bm == Cardinality({gk \in slots : comp[gk[1]][gk[2]] \in item.body})
        pri == item.category = "Governance"
    IN /\ result.score * CATEGORY_MULTIPLIER_DEN =
            (TITLE_WEIGHT * tm + BODY_WEIGHT * bm)
            * (IF pri THEN CATEGORY_MULTIPLIER_NUM ELSE CATEGORY_MULTIPLIER_DEN)
       /\ result.triggered <=> (result.score >= threshold)
       /\ (tm = 1 /\ bm = 0 /\ pri) => result.score = 6
       /\ (tm = 1 /\ bm = 0 /\ ~pri) => result.score = 4
       /\ (tm = 0 /\ bm = 1 /\ ~pri) =>
            /\ result.score = 2
            /\ threshold = DEFAULT_THRESHOLD => ~result.triggered

C19_Witness ==
  /\ result # NoResult
  /\ item.category = "Governance"
  /\ PatternCount(DictList, result.compiled) = 2
  /\ result.score = 18
  /\ result.triggered

C21_InvalidPatternRejected ==
  /\ [](\A g \in DictGroups :
          \A k \in 1..Len(compiled[g]) : compiles(compiled[g][k]))
  /\ [][adminOp'.op = "add_invalid" =>
          /\ addError' = "invalid_pattern"
          /\ get_all_keywords(dictKeys', compiled')
               = get_all_keywords(dictKeys, compiled)]_vars

C21_Witness ==
  /\ adminOp.op = "add_invalid"
  /\ addError = "invalid_pattern"
  /\ ~InSeq(NewGroup, dictKeys)
  /\ PatternCount(DictList, compiled) = 1

\* C22: the constructor never fails on a pattern that does not compile: after
\* it the active set holds, under each group of the mapping, exactly the
\* patterns of that group that compile, in their order.
C22_ConstructionDropsBadPatterns ==
  (adminOp.op \in {"start_once", "start_continuous"} /\ kwRows = <<>>) =>
    /\ dictKeys = GroupList
    /\ \A g \in Groups :
         compiled[g] = SelectSeq(keywordsCfg[g], LAMBDA q : q # BadPattern)
    /\ compiled[NewGroup] = <<>>

C22_Witness ==
  /\ adminOp.op = "start_once"
  /\ keywordsCfg["governance"] = <<"(", "treasury">>
  /\ compiled["governance"] = <<"treasury">>
  /\ compiled["security"] = <<"council">>


\* C23: disabling a built-in keyword takes it out of get_all_keywords() and
\* leaves a record of it; re-enabling it takes the record away and puts the
\* keyword back in its group as the configuration has it (beside the rows of
\* that group and text users have added); a disable of a
\* keyword already disabled and an enable of a keyword not disabled change
\* neither the records nor get_all_keywords().
C23_DisableEnableBuiltIn ==
  /\ [](adminOp.op = "disable" =>
          /\ <<"keyword", adminOp.key>> \in disabled
          /\ Occurrences(compiled[adminOp.key[1]], adminOp.key[2]) = 0)
  /\ [](adminOp.op = "enable" =>
          /\ <<"keyword", adminOp.key>> \notin disabled
          /\ Occurrences(compiled[adminOp.key[1]], adminOp.key[2])
               = Occurrences(construct(keywordsCfg).compiled[adminOp.key[1]],
                             adminOp.key[2])
                 + Cardinality({r \in list_keywords(kwRows) :
                                  <<r.group, r.text>> = adminOp.key}))
  /\ [][(/\ adminOp'.op = "disable"
          /\ <<"keyword", adminOp'.key>> \in disabled
          /\ Occurrences(compiled[adminOp'.key[1]], adminOp'.key[2]) = 0) =>
            /\ disabled' = disabled
            /\ get_all_keywords(dictKeys', compiled')
                 = get_all_keywords(dictKeys, compiled)]_vars
  /\ [][(/\ adminOp'.op = "enable"
          /\ <<"keyword", adminOp'.key>> \notin disabled) =>
            /\ disabled' = disabled
            /\ get_all_keywords(dictKeys', compiled')
                 = get_all_keywords(dictKeys, compiled)]_vars

\* C24: a deleted user keyword stays deleted: its row is gone after
\* remove_user_keyword, rows come to the table only by a new add, through
\* restarts and enables too, and the active set holds a group and text only
\* while the configuration or a row of the table has it.
C24_DeletePermanent ==
  /\ [](adminOp.op = "delete" => adminOp.rows \cap list_keywords(kwRows) = {})
  /\ [][adminOp'.op # "add" =>
          list_keywords(kwRows') \subseteq list_keywords(kwRows)]_vars
  /\ [](\A g \in DictGroups : \A k \in 1..Len(compiled[g]) :
          \/ g \in Groups /\ InSeq(compiled[g][k], keywordsCfg[g])
          \/ \E r \in list_keywords(kwRows) :
               r.group = g /\ r.text = compiled[g][k])

\* C28: after every keyword submission that changes something and after every
\* start of the process, in either mode, the active set is, group by group
\* and text by text, the built-in patterns without a disabled record together
\* with the rows of the keyword table.
C28_ActiveSetMatchesLedger ==
  adminOp.op \in {"add", "delete", "disable", "enable",
                  "start_continuous", "start_once"} =>
    \A g \in DictGroups : \A p \in Patterns :
      Occurrences(compiled[g], p)
        = (IF g \in Groups /\ <<"keyword", <<g, p>>>> \notin disabled
           THEN Occurrences(compile_group(keywordsCfg[g]), p) ELSE 0)
          + Cardinality({r \in list_keywords(kwRows) :
                           r.group = g /\ r.text = p})

\* C25: an analyze call during which another thread adds or removes a keyword
\* ends without an error, and its score and triggered flag are those of
\* scoring the post against one of the pattern sets the analyzer held during
\* the call.
C25_AnalyzeSeesWholeSets ==
  /\ it.pc # "error"
  /\ it.pc = "done" =>
       \E set \in it.sets :
         LET r == analyze(content(item, set), threshold)
         IN result.score = r.score /\ result.triggered = r.triggered

\* C26: a shutdown signal changes nothing of the cycle that runs; a cycle
\* returns only when it has no forum and no post left; with the signal set no
\* cycle starts; and the loop ends once the signal is set.
C26_ShutdownBetweenCycles ==
  /\ [][shutdown' # shutdown => pipelineVars' = pipelineVars]_vars
  /\ [][(pc["live"] # "idle" /\ pc'["live"] = "idle") =>
          /\ forumsLeft["live"] = <<>>
          /\ queue["live"] = <<>>
          /\ cur["live"] = NoCur]_vars
  /\ [][shutdown # "unset" => ~(pc["live"] = "idle" /\ pc'["live"] # "idle")]_vars
  /\ [](shutdown = "stopped" => pc["live"] = "idle")
  /\ (shutdown = "set") ~> (shutdown = "stopped")

C26_Witness ==
  /\ shutdown = "set"
  /\ pc["live"] = "check"
  /\ forumsLeft["live"] # <<>>
  /\ queue["live"] # <<>>

\* C27: the forums a monitoring cycle polls are the forums configured and
\* enabled when it starts: the built-in forums without a disabled record and
\* the forums users have added to the ledger, whatever was added, disabled,
\* deleted or re-enabled since the process started, and after a restart.
C27_PolledSourcesAreCurrent ==
  [][(pc["live"] = "idle" /\ pc'["live"] = "fetch") =>
       {forumsLeft'["live"][k] : k \in 1..Len(forumsLeft'["live"])}
         = {ForumList[k] : k \in {j \in 1..Len(ForumList) :
                                   <<"forum", ForumList[j]>> \notin disabled}}
           \cup {forumRows[k].name : k \in 1..Len(forumRows)}]_vars

\* C29: a scan works on a ledger of its own: no step of a scan changes a row or
\* the notification log of the live ledger, and a scan's decision to alert is
\* should_notify on the scan's ledger, whatever the live ledger holds.
C29_ScanLedgerIsolated ==
  /\ [][ledger'["live"] = ledger["live"]]_vars
  /\ [][(pc["scan1"] = "check" /\ pc'["scan1"] # "check") =>
          /\ kind["scan1"] # "live"
          /\ (pc'["scan1"] = "send")
               = should_notify(ledger[kind["scan1"]], cur["scan1"].id, cur["scan1"].score)]_vars

C29_Witness ==
  /\ ledger["live"].seen[1] # NoRow
  /\ ledger["live"].seen[1].notified_at # Null
  /\ pc["scan1"] = "send"
  /\ cur["scan1"].id = 1

\* C30: in the monitoring cycle an alert is sent for a post only when analyze
\* returned triggered for it and should_notify returned true; a post that is
\* not triggered goes to mark_seen and to nothing else; a triggered post for
\* which should_notify is false is passed over with no delivery and no write
\* to the ledger.
C30_DeliverOnlyTriggeredAndNew ==
  /\ [][(pc["live"] = "send" /\ lastOp'.op \in {"send_ok", "send_fail"}) =>
          /\ cur["live"].score >= threshold
          /\ should_notify(ledger["live"], cur["live"].id, cur["live"].score)]_vars
  /\ [][(pc["live"] = "next" /\ pc'["live"] \in {"seen", "check"}) =>
          (pc'["live"] = "seen") = (cur'["live"].score < threshold)]_vars
  /\ [][pc["live"] = "seen" =>
          /\ delivered' = delivered
          /\ ledger'["live"].log = ledger["live"].log
          /\ pc'["live"] \in {"seen", "next", "error", "idle"}]_vars
  /\ [][(/\ pc["live"] = "check"
          /\ ~should_notify(ledger["live"], cur["live"].id, cur["live"].score)) =>
            /\ pc'["live"] \in {"check", "next", "idle"}
            /\ ledger' = ledger
            /\ delivered' = delivered]_vars

C30_Witness ==
  /\ pc["live"] = "check"
  /\ cur["live"].score >= threshold
  /\ ~should_notify(ledger["live"], cur["live"].id, cur["live"].score)
  /\ delivered["live"][cur["live"].id] = 1

\* C31: a post first recorded by mark_seen as not triggered is notified like a
\* post without a row: as long as mark_seen is all that was called for it,
\* should_notify is true for it at every score, and when a later observation
\* of it is triggered the cycle goes from the test on to the delivery.
C31_SeenStaysNotifiable ==
  /\ [](\A i \in Posts : seenMax[i] >= 0 =>
          /\ ledger["live"].seen[i] # NoRow
          /\ ledger["live"].seen[i].notified_at = Null
          /\ \A s \in ScoreValues : should_notify(ledger["live"], i, s))
  /\ [][(/\ pc["live"] = "check"
         /\ seenMax[cur["live"].id] >= 0
         /\ pc'["live"] \notin {"check", "idle"}) => pc'["live"] = "send"]_vars

C31_Witness ==
  /\ lastOp.op = "send_ok"
  /\ lastOp.p = "live"
  /\ seenMax[lastOp.id] >= 0
  /\ seenMax[lastOp.id] < threshold
  /\ delivered["live"][lastOp.id] = 1

\* C31 as stated: for a post first recorded by mark_seen as not triggered no
\* alert is delivered afterwards.
C31_SeenNeverNotified ==
  [][\A i \in Posts :
       seenMax[i] >= 0 => delivered'["live"][i] = delivered["live"][i]]_vars

\* C32: the monitoring loop ends abnormally on a failure of the ledger and on
\* nothing else: a failed mark_seen, should_notify, mark_notified or get_stats
\* ends the process, while after a failed fetch, delivery or error report the
\* cycle goes on.
C32_OnlyLedgerFailureFatal ==
  /\ [][(/\ lastOp'.p = "live"
         /\ lastOp'.op \in {"mark_seen_fail", "should_notify_fail", "commit_fail",
                            "get_stats_fail"}) => pc'["live"] = "fatal"]_vars
  /\ [][(/\ lastOp'.p = "live"
         /\ lastOp'.op \in {"fetch_fail", "send_fail", "send_error_fail"})
          => pc'["live"] \in {"next", "fetch"}]_vars
  /\ [](pc["live"] = "fatal" => lastOp.op = "get_stats_fail")

\* C33: with the monitoring loop and a scan thread calling get on the one
\* client at the same time, a caller that finds the lock taken waits for it:
\* no call ends in an error of the lock, and no request is dispatched while
\* less than MIN_INTERVAL has gone by since the one before it.
C33_ContendersQueueAndDispatch ==
  /\ [](\A c \in Callers : call[c].outcome # "lock_loop_error")
  /\ [][\A c \in Callers :
          (call[c].pc = "pace" /\ call'[c].pc = "request")
            => sinceDispatch >= MIN_INTERVAL]_vars

\* C34: the detection_score stored for a post is a running maximum: no ledger
\* operation, mark_seen or mark_notified, leaves a row with a smaller score
\* than it had.
C34_ScoreNeverLowered ==
  [][\A l \in Ledgers, i \in Posts :
       ledger[l].seen[i] # NoRow =>
         /\ ledger'[l].seen[i] # NoRow
         /\ ledger'[l].seen[i].detection_score >= ledger[l].seen[i].detection_score]_vars

\* C35: the notification log is append-only: a step of the process leaves the
\* log as it is or adds one entry behind the entries it holds, which stay as
\* they are; a mark_notified call that completes adds exactly one entry, that
\* of its post, and no other operation adds any.
C35_LogAppendOnly ==
  /\ [][\A l \in Ledgers :
          \/ ledger'[l].log = ledger[l].log
          \/ /\ Len(ledger'[l].log) = Len(ledger[l].log) + 1
             /\ SubSeq(ledger'[l].log, 1, Len(ledger[l].log)) = ledger[l].log
             /\ lastOp'.op = "mark_notified"]_vars
  /\ [][(pc["live"] = "commit" /\ lastOp'.op = "mark_notified") =>
          ledger'["live"].log =
            Append(ledger["live"].log,
                   [post_id |-> sess["live"].post_id, score |-> sess["live"].score])]_vars

C35_Witness ==
  /\ lastOp.op = "mark_notified"
  /\ Len(ledger["live"].log) >= 2
  /\ ledger["live"].log[1].post_id # ledger["live"].log[2].post_id

\* C36: the table holds at most one seen_posts row for a post_id, whatever
\* mark_seen and mark_notified calls two threads run on it and however their
\* queries and commits interleave; of two calls that both found no row for a
\* post, the one that commits second is refused and writes nothing.
C36_OneRowPerPost ==
  /\ \A i \in Posts : RowCount(table, i) <= 1
  /\ \A s \in Sessions :
       (tx[s].pc = "done" /\ tx[s].error = "none") => RowCount(table, tx[s].post_id) = 1

C36_Witness ==
  /\ tx["s1"].pc = "done"
  /\ tx["s2"].pc = "done"
  /\ tx["s1"].post_id = tx["s2"].post_id
  /\ tx["s1"].error = "integrity_error"
  /\ tx["s2"].error = "none"
  /\ tx["s1"].op = "mark_seen"
  /\ tx["s2"].op = "mark_notified"
  /\ RowCount(table, tx["s1"].post_id) = 1

\* C37: a call of get makes at most MAX_RETRIES requests whatever the server
\* answers, and it ends: it returns the body, after a 200 response, or it
\* raises.
C37_GetTerminates ==
  /\ [](\A c \in Callers :
          /\ call[c].nreq <= MAX_RETRIES
          /\ call[c].attempt < MAX_RETRIES
          /\ call[c].pc = "done" =>
               /\ call[c].nreq >= 1
               /\ call[c].outcome \in {"ok", "network_error", "client_response_error",
                                       "max_retries_exceeded"}
               /\ call[c].outcome = "ok" <=> call[c].lastResp = 200)
  /\ (call["live"].pc # "idle") ~> (call["live"].pc = "done")

C37_Witness ==
  /\ call["live"].pc = "done"
  /\ call["live"].nreq = MAX_RETRIES
  /\ call["live"].kinds = "other"
  /\ call["live"].lastResp = 429
  /\ call["live"].outcome = "max_retries_exceeded"

\* C38: in every state of a ledger a post has a row with notified_at set
\* exactly when the log holds an entry for it, so get_stats reports no more
\* notified posts than posts seen and no more than notifications sent.
C38_NotifiedIffLogged ==
  \A l \in Ledgers :
    LET stats == get_stats(ledger[l])
    IN /\ \A i \in Posts :
            (ledger[l].seen[i] # NoRow /\ ledger[l].seen[i].notified_at # Null)
              <=> (\E k \in 1..Len(ledger[l].log) : ledger[l].log[k].post_id = i)
       /\ stats.total_posts_notified <= stats.total_posts_seen
       /\ stats.total_posts_notified <= stats.total_notifications_sent

C38_Witness ==
  /\ get_stats(ledger["live"]) =
       [total_posts_seen |-> 2, total_posts_notified |-> 1,
        total_notifications_sent |-> 1]
  /\ lastOp.op = "crash_in_mark_notified"

\* C39: deleting a user keyword leaves the built-in patterns in the active
\* set: when the row deleted has the group and text of a built-in pattern that
\* is active beside it, get_all_keywords() still holds that text in the group
\* after the deletion.
C39_DeleteKeepsBuiltIn ==
  [][\A g \in Groups, p \in Patterns :
       (/\ adminOp'.op = "delete"
        /\ adminOp'.key = <<g, p>>
        /\ kwRows' # kwRows
        /\ \A r \in adminOp'.rows : r.group = g /\ r.text = p
        /\ InSeq(p, keywordsCfg[g])
        /\ Occurrences(compiled[g], p) >= 2)
         => InSeq(p, get_all_keywords(dictKeys', compiled')[g])]_vars

====
